---- MODULE Spec2Model ----
(***************************************************************************)
(* Verification model of the esp32-distance firmware core:                 *)
(*   - the WS2812 LED controller (working buffer, snapshot, led_show)      *)
(*     of main/components/led_controller/led_controller.c                  *)
(*   - the HC-SR04 measurement pipeline (echo ISR, raw queue, measurement  *)
(*     task, processed queue, API) of                                      *)
(*     main/components/distance_sensor/distance_sensor.c                   *)
(***************************************************************************)
EXTENDS Integers, Sequences, FiniteSets, TLC

(***************************************************************************)
(* Bounds of the model                                                     *)
(***************************************************************************)
\* configured LED count of the strip ("led_count" in the configuration store)
NumLeds == 2
\* number of tasks that read the snapshot through led_get_all_colors
NumReaders == 2
\* number of tasks that call distance_sensor_get_latest
NumConsumers == 1
\* number of tasks that call distance_sensor_start
NumStarters == 2
\* measurement tasks in existence at a time
MaxTasks == 2
\* measurement cycles the task runs
MaxCycles == 6
\* echo pulses the ISR times
MaxEchoes == 2

Readers == 1..NumReaders

(***************************************************************************)
(* LED controller: colours                                                 *)
(***************************************************************************)
led_color_rgb(r, g, b) == [red |-> r, green |-> g, blue |-> b]

LED_COLOR_RED == led_color_rgb(255, 0, 0)

LED_COLOR_OFF == led_color_rgb(0, 0, 0)

\* the colours the render task writes, and the contents malloc'ed memory may hold
Colors == {LED_COLOR_OFF, LED_COLOR_RED}

\* values of snapshot_mutex: not created, free, or held by a task
MutexNull == <<"NULL", 0>>

MutexFree == <<"free", 0>>

HeldByRender == <<"render", 0>>

HeldBy(r) == <<"reader", r>>

\* an output-buffer slot the callee has not written
Untouched == [red |-> -1, green |-> -1, blue |-> -1]

VARIABLES
    \* ---- led_controller.c statics ----
    is_initialized,       \* bool is_initialized
    led_count,            \* current_config.led_count
    led_buffer,           \* working buffer: sequence of colours (<<>> = NULL)
    led_buffer_snapshot,  \* snapshot buffer: sequence of colours (<<>> = NULL)
    snapshot_mutex,       \* MutexNull, MutexFree, HeldByRender or HeldBy(reader)
    \* ---- the render task inside led_show ----
    show_pc,              \* "idle", "wait", "take", "copy"
    show_i,               \* memcpy position of the snapshot update
    last_ret,             \* <<function, return value>> of the render task's last led_* call
    data_buffer,          \* the GRB byte stream handed to rmt_transmit
    \* ---- reader tasks inside led_get_all_colors ----
    rd_pc,                \* reader -> "idle", "take", "copy", and after a deinit under the
                          \* call "panic", "freed_memory_read"
    rd_i,                 \* reader -> memcpy position
    rd_count,             \* reader -> copy_count
    rd_out,               \* reader -> output_buffer during a call (max_count slots);
                          \* <<>> once the caller has the result
    rd_ret,               \* reader -> last return value (-1 before and during a call)
    \* ---- history (not program state) ----
    tx_status,            \* result of the transmission of the current/last led_show
    last_ok_frame,        \* working buffer of the last confirmed transmission, <<>> if none
    snap_at_call,         \* snapshot when the current/last led_show was entered
    last_published,       \* the last frame completely copied into the snapshot
    rd_frames,            \* reader -> complete frames current during its read
    \* ---- the RMT channel and the data line of the strip ----
    rmt_busy,             \* the channel holds a transaction that has not finished
    line_low              \* with the channel idle, how long the line has been low:
                          \* "reset" (at least the reset interval) or "short"

ledVars == <<is_initialized, led_count, led_buffer, led_buffer_snapshot, snapshot_mutex,
             show_pc, show_i, last_ret, data_buffer,
             rd_pc, rd_i, rd_count, rd_out, rd_ret,
             tx_status, last_ok_frame, snap_at_call, last_published, rd_frames,
             rmt_busy, line_low>>

readerVars == <<rd_pc, rd_i, rd_count, rd_out, rd_ret, rd_frames>>

wireVars == <<rmt_busy, line_low>>

showVars == <<show_pc, show_i, last_ret, data_buffer, tx_status, wireVars>>

VARIABLES
    \* ---- distance_sensor.c statics ----
    sensor_config,               \* [timeout_ms, temperature_c_x10, smoothing_factor]
    sensor_task_handle,          \* "NULL" or "task"
    raw_measurement_queue,       \* ISR -> task, capacity RAW_QUEUE_SIZE
    processed_measurement_queue, \* task -> API, capacity PROCESSED_QUEUE_SIZE
    queue_overflow_counter,      \* uint32_t
    previous_smoothed_value_mm,  \* uint16_t, EMA filter state
    smoothing_initialized,       \* bool, EMA filter state
    echo_start_time,             \* ISR state
    measurement_in_progress,     \* ISR state
    \* ---- esp_timer_get_time() ----
    now,
    \* ---- distance_sensor_task ----
    task_pc,                     \* "none", "trigger", "pulse", "await", "send", "evict", "resend",
                                 \* "count", "panic", "freed_memory_read"
    speed_of_sound_scaled,       \* local, computed once at task start
    echo_duration_us,            \* local of the current cycle
    processed,                   \* local: the reading of the current cycle
    \* ---- callers of distance_sensor_get_latest ----
    cons_pc,                     \* consumer -> "idle", "blocked"
    last_delivered,              \* *measurement of the most recent return (NoReading: none yet)
    \* ---- history (not program state) ----
    cycles,                      \* measurement cycles started
    echoes,                      \* echo pulses the ISR has timed
    enq_in_cycle,                \* successful enqueues of the current cycle
    n_evicted,                   \* readings the task removed from the processed queue
    hist,                        \* per echo processed (when recorded): raw and published
                                 \* distance, status, filter state after the cycle
    \* ---- task lifecycle ----
    live_tasks,                  \* measurement tasks created and not deleted
    start_pc,                    \* caller of distance_sensor_start -> "idle", "create"
    life_ret,                    \* <<function, return value>> of the last init/start/stop return
    \* ---- initialization and the polling API ----
    queues_created,              \* both queue handles are non-NULL (distance_sensor_init done)
    has_new_ret,                 \* consumer -> last return value of
                                 \* distance_sensor_has_new_measurement as 0 or 1 (-1: no call yet)
    \* ---- the pins, the echo interrupt and the steps of distance_sensor_init ----
    trigger_level,               \* level the trigger pin is driven to (0 or 1)
    raw_at_trigger,              \* history: samples waiting in the raw queue when the
                                 \* trigger pulse of the current cycle was sent
    init_pc,                     \* caller of distance_sensor_init -> "idle", "create_raw",
                                 \* "create_processed"
    isr_handler_added,           \* echo_isr_handler is registered for the echo pin
    raw_queue_handle,            \* raw_measurement_queue: "NULL", "valid" (a queue) or
                                 \* "deleted" (the handle of a queue that was deleted)
    isr_fault,                   \* what an xQueueSendFromISR on a handle that is no queue
                                 \* has done: "none", "panic" or "freed_memory_written"
    \* ---- display_logic_task ----
    display_pc,                  \* "none" (not created), "entry" (created, before the
                                 \* loop), "poll", "receive", "render"
    ideal_zone_start,            \* display_state.ideal_zone_start (uint8_t)
    ideal_zone_end,              \* display_state.ideal_zone_end (uint8_t)
    cached_led_count             \* static cached_led_count of determine_display_mode

sensorVars == <<sensor_config, sensor_task_handle, raw_measurement_queue,
                processed_measurement_queue, queue_overflow_counter,
                previous_smoothed_value_mm, smoothing_initialized,
                echo_start_time, measurement_in_progress, now,
                task_pc, speed_of_sound_scaled, echo_duration_us, processed,
                cons_pc, last_delivered,
                cycles, echoes, enq_in_cycle, n_evicted, hist,
                live_tasks, start_pc, life_ret, queues_created, has_new_ret,
                trigger_level, raw_at_trigger,
                init_pc, isr_handler_added, raw_queue_handle, isr_fault, display_pc,
                ideal_zone_start, ideal_zone_end, cached_led_count>>

zoneVars == <<ideal_zone_start, ideal_zone_end, cached_led_count>>

displayVars == <<display_pc, zoneVars>>

initVars == <<init_pc, isr_handler_added, raw_queue_handle, isr_fault>>

pinVars == <<trigger_level, raw_at_trigger, initVars>>

apiVars == <<queues_created, has_new_ret, pinVars, displayVars>>

lifeVars == <<live_tasks, start_pc, life_ret, apiVars>>

vars == <<ledVars, sensorVars>>

Min(a, b) == IF a < b THEN a ELSE b

Max(a, b) == IF a > b THEN a ELSE b

(***************************************************************************)
(* led_controller_init                                                     *)
(***************************************************************************)
\* values the configuration store may return for "led_count" and "led_bright"
CfgLedCounts == {0, NumLeds, 1001}

CfgBrightness == {-1, 128, 256}

\* led_count accepted by the range check of led_controller_init
LedCountValid(n) == ~(n <= 0 \/ n > 1000)

\* the brightness check with its upper limit one too high
BrightnessValid_accepts_256(b) == ~(b < 0 \/ b > 256)

BrightnessValid(b) == ~(b < 0 \/ b > 255)

\* led_clear_all as led_controller_init calls it: is_initialized is still false,
\* so the call returns ESP_ERR_INVALID_STATE and the malloc'ed buffer keeps
\* whatever it held.
InitClearAll(buf) == IF is_initialized THEN [k \in DOMAIN buf |-> LED_COLOR_OFF] ELSE buf

\* results of config_get_int32: the value was read, or the key is missing
ConfigReadResults == {"ESP_OK", "ESP_ERR_NVS_NOT_FOUND"}

\* results of the allocations of led_controller_init (the two buffers, the
\* mutex, the RMT channel and encoder): all made, or one failed
InitResourceResults == {"ESP_OK", "ESP_ERR_NO_MEM"}

\* led_controller_init with the results of its two configuration reads
\* (read_count, n for "led_count"; read_bright, b for "led_bright") and of its
\* allocations
led_controller_init_with(read_count, n, read_bright, b, resources) ==
    /\ show_pc = "idle"
    /\ \A r \in Readers : rd_pc[r] = "idle"
    /\ IF is_initialized
       THEN /\ last_ret' = <<"led_controller_init", "ESP_ERR_INVALID_STATE">>
            /\ UNCHANGED <<is_initialized, led_count, led_buffer, led_buffer_snapshot,
                           snapshot_mutex, last_ok_frame, last_published>>
       ELSE IF read_count # "ESP_OK"
       THEN /\ last_ret' = <<"led_controller_init", read_count>>
            /\ UNCHANGED <<is_initialized, led_count, led_buffer, led_buffer_snapshot,
                           snapshot_mutex, last_ok_frame, last_published>>
       ELSE IF ~LedCountValid(n)
       THEN /\ last_ret' = <<"led_controller_init", "ESP_ERR_INVALID_ARG">>
            /\ UNCHANGED <<is_initialized, led_count, led_buffer, led_buffer_snapshot,
                           snapshot_mutex, last_ok_frame, last_published>>
       ELSE IF read_bright # "ESP_OK"
       THEN /\ last_ret' = <<"led_controller_init", read_bright>>
            /\ led_count' = n
            /\ UNCHANGED <<is_initialized, led_buffer, led_buffer_snapshot,
                           snapshot_mutex, last_ok_frame, last_published>>
       ELSE IF ~BrightnessValid(b)
       THEN /\ last_ret' = <<"led_controller_init", "ESP_ERR_INVALID_ARG">>
            /\ led_count' = n
            /\ UNCHANGED <<is_initialized, led_buffer, led_buffer_snapshot,
                           snapshot_mutex, last_ok_frame, last_published>>
       ELSE IF resources # "ESP_OK"
       THEN /\ last_ret' = <<"led_controller_init", resources>>
            /\ led_count' = n
            /\ UNCHANGED <<is_initialized, led_buffer, led_buffer_snapshot,
                           snapshot_mutex, last_ok_frame, last_published>>
       ELSE \E garbage \in [1..n -> Colors] :
            /\ led_count' = n
            /\ led_buffer' = InitClearAll(garbage)
            /\ led_buffer_snapshot' = led_buffer'
            /\ snapshot_mutex' = MutexFree
            /\ is_initialized' = TRUE
            /\ last_ret' = <<"led_controller_init", "ESP_OK">>
            /\ last_ok_frame' = <<>>
            /\ last_published' = led_buffer'
    /\ UNCHANGED <<show_pc, show_i, data_buffer, tx_status, snap_at_call, readerVars>>
    /\ UNCHANGED wireVars
    /\ UNCHANGED sensorVars

led_controller_init ==
    \E read_count \in ConfigReadResults, n \in CfgLedCounts,
       read_bright \in ConfigReadResults, b \in CfgBrightness,
       resources \in InitResourceResults :
         led_controller_init_with(read_count, n, read_bright, b, resources)

(***************************************************************************)
(* led_controller_deinit                                                   *)
(***************************************************************************)
\* led_controller_deinit, called by the render task between two of its led_show
\* calls: led_clear_all, led_show (shown: its frame was confirmed), then the
\* channel, the buffers and the mutex are released, whatever other tasks are
\* doing in led_get_all_colors. current_config keeps its led_count.
led_controller_deinit ==
    /\ show_pc = "idle"
    /\ IF ~is_initialized
       THEN /\ last_ret' = <<"led_controller_deinit", "ESP_ERR_INVALID_STATE">>
            /\ UNCHANGED <<is_initialized, led_buffer, led_buffer_snapshot, snapshot_mutex,
                           tx_status, last_ok_frame, last_published, wireVars>>
       ELSE \E shown \in BOOLEAN :
            /\ led_buffer' = <<>>
            /\ led_buffer_snapshot' = <<>>
            /\ snapshot_mutex' = MutexNull
            /\ is_initialized' = FALSE
            /\ last_ret' = <<"led_controller_deinit", "ESP_OK">>
            /\ tx_status' = "none"
            /\ last_ok_frame' = IF shown THEN [k \in 1..led_count |-> LED_COLOR_OFF]
                                         ELSE last_ok_frame
            /\ last_published' = <<>>
            /\ rmt_busy' = FALSE
            /\ line_low' = "short"
    /\ UNCHANGED <<led_count, show_pc, show_i, data_buffer, snap_at_call, readerVars>>
    /\ UNCHANGED sensorVars

\* led_get_count
led_get_count == IF is_initialized THEN led_count ELSE 0

\* led_get_pixel reading the snapshot instead of the working buffer
led_get_pixel_from_snapshot(index) ==
    IF ~is_initialized \/ index >= led_count
    THEN LED_COLOR_OFF
    ELSE led_buffer_snapshot[index + 1]

\* led_get_pixel
led_get_pixel(index) ==
    IF ~is_initialized \/ index >= led_count THEN LED_COLOR_OFF ELSE led_buffer[index + 1]

(***************************************************************************)
(* led_set_pixel, led_clear_all (render task, between two led_show calls)  *)
(***************************************************************************)
\* led_set_pixel with the range check letting index == led_count through
led_set_pixel_off_by_one(index, color) ==
    /\ show_pc = "idle"
    /\ IF ~is_initialized
       THEN /\ last_ret' = <<"led_set_pixel", "ESP_ERR_INVALID_STATE">>
            /\ UNCHANGED led_buffer
       ELSE IF index > led_count
       THEN /\ last_ret' = <<"led_set_pixel", "ESP_ERR_INVALID_ARG">>
            /\ UNCHANGED led_buffer
       ELSE /\ led_buffer' = [k \in 1..led_count |->
                                IF k = index + 1 THEN color ELSE led_buffer[k]]
            /\ last_ret' = <<"led_set_pixel", "ESP_OK">>
    /\ UNCHANGED <<is_initialized, led_count, led_buffer_snapshot, snapshot_mutex,
                   show_pc, show_i, data_buffer, tx_status, readerVars,
                   last_ok_frame, snap_at_call, last_published>>
    /\ UNCHANGED wireVars
    /\ UNCHANGED sensorVars

led_set_pixel(index, color) ==
    /\ show_pc = "idle"
    /\ IF ~is_initialized
       THEN /\ last_ret' = <<"led_set_pixel", "ESP_ERR_INVALID_STATE">>
            /\ UNCHANGED led_buffer
       ELSE IF index >= led_count
       THEN /\ last_ret' = <<"led_set_pixel", "ESP_ERR_INVALID_ARG">>
            /\ UNCHANGED led_buffer
       ELSE /\ led_buffer' = [led_buffer EXCEPT ![index + 1] = color]
            /\ last_ret' = <<"led_set_pixel", "ESP_OK">>
    /\ UNCHANGED <<is_initialized, led_count, led_buffer_snapshot, snapshot_mutex,
                   show_pc, show_i, data_buffer, tx_status, readerVars,
                   last_ok_frame, snap_at_call, last_published>>
    /\ UNCHANGED wireVars
    /\ UNCHANGED sensorVars

\* led_clear_all without the test of is_initialized
led_clear_all_unchecked ==
    /\ show_pc = "idle"
    /\ led_buffer' = [k \in 1..led_count |-> LED_COLOR_OFF]
    /\ last_ret' = <<"led_clear_all", "ESP_OK">>
    /\ UNCHANGED <<is_initialized, led_count, led_buffer_snapshot, snapshot_mutex,
                   show_pc, show_i, data_buffer, tx_status, readerVars,
                   last_ok_frame, snap_at_call, last_published>>
    /\ UNCHANGED wireVars
    /\ UNCHANGED sensorVars

\* led_clear_all clearing the snapshot together with the working buffer
led_clear_all_both_buffers ==
    /\ show_pc = "idle"
    /\ IF ~is_initialized
       THEN /\ last_ret' = <<"led_clear_all", "ESP_ERR_INVALID_STATE">>
            /\ UNCHANGED <<led_buffer, led_buffer_snapshot>>
       ELSE /\ led_buffer' = [k \in 1..led_count |-> LED_COLOR_OFF]
            /\ led_buffer_snapshot' = led_buffer'
            /\ last_ret' = <<"led_clear_all", "ESP_OK">>
    /\ UNCHANGED <<is_initialized, led_count, snapshot_mutex,
                   show_pc, show_i, data_buffer, tx_status, readerVars,
                   last_ok_frame, snap_at_call, last_published>>
    /\ UNCHANGED wireVars
    /\ UNCHANGED sensorVars

\* led_clear_pixel
led_clear_pixel(index) == led_set_pixel(index, LED_COLOR_OFF)

led_clear_all ==
    /\ show_pc = "idle"
    /\ IF ~is_initialized
       THEN /\ last_ret' = <<"led_clear_all", "ESP_ERR_INVALID_STATE">>
            /\ UNCHANGED led_buffer
       ELSE /\ led_buffer' = [k \in 1..led_count |-> LED_COLOR_OFF]
            /\ last_ret' = <<"led_clear_all", "ESP_OK">>
    /\ UNCHANGED <<is_initialized, led_count, led_buffer_snapshot, snapshot_mutex,
                   show_pc, show_i, data_buffer, tx_status, readerVars,
                   last_ok_frame, snap_at_call, last_published>>
    /\ UNCHANGED wireVars
    /\ UNCHANGED sensorVars

(***************************************************************************)
(* led_show                                                                *)
(***************************************************************************)
\* the same bytes in red, green, blue order
RgbBytes(buf) ==
    [k \in 1..(3 * Len(buf)) |->
        LET led == ((k - 1) \div 3) + 1
            c   == (k - 1) % 3
        IN  IF c = 0 THEN buf[led].red
            ELSE IF c = 1 THEN buf[led].green
            ELSE buf[led].blue]

\* the GRB byte stream of a buffer: byte 3i = green, 3i+1 = red, 3i+2 = blue
GrbBytes(buf) ==
    [k \in 1..(3 * Len(buf)) |->
        LET led == ((k - 1) \div 3) + 1
            c   == (k - 1) % 3
        IN  IF c = 0 THEN buf[led].green
            ELSE IF c = 1 THEN buf[led].red
            ELSE buf[led].blue]

\* WS2812 timing constants (RMT ticks at 80 MHz)
WS2812_T0H_TICKS == 32

WS2812_T0L_TICKS == 64

WS2812_T1H_TICKS == 64

WS2812_T1L_TICKS == 32

\* bytes encoder configuration of rmt_new_led_strip_encoder: the RMT symbol of a
\* 0 bit and of a 1 bit
RmtSymbol(bit) ==
    IF bit = 0
    THEN [level0 |-> 1, duration0 |-> WS2812_T0H_TICKS,
          level1 |-> 0, duration1 |-> WS2812_T0L_TICKS]
    ELSE [level0 |-> 1, duration0 |-> WS2812_T1H_TICKS,
          level1 |-> 0, duration1 |-> WS2812_T1L_TICKS]

\* bit k (1..8) of a byte in the order the encoder sends them:
\* flags.msb_first = 1
ByteBit(byte, k) == (byte \div (2 ^ (8 - k))) % 2

\* the RMT symbols the bytes encoder puts on the line for a byte stream
rmt_bytes_encoder(bytes) ==
    [k \in 1..(8 * Len(bytes)) |->
        RmtSymbol(ByteBit(bytes[((k - 1) \div 8) + 1], ((k - 1) % 8) + 1))]

\* results of rmt_transmit: started, or failed with an error
TransmitResults == {"ESP_OK", "ESP_FAIL"}

\* results of rmt_tx_wait_all_done(channel, 100)
WaitDoneResults == {"ESP_OK", "ESP_ERR_TIMEOUT"}

\* entry of led_show up to and including rmt_transmit
led_show_transmit ==
    /\ show_pc = "idle"
    /\ IF ~is_initialized
       THEN /\ last_ret' = <<"led_show", "ESP_ERR_INVALID_STATE">>
            /\ UNCHANGED <<show_pc, data_buffer, snap_at_call, tx_status, rmt_busy>>
       ELSE \E malloc_ok \in BOOLEAN, res \in TransmitResults :
            /\ snap_at_call' = led_buffer_snapshot
            /\ IF ~malloc_ok
               THEN /\ last_ret' = <<"led_show", "ESP_ERR_NO_MEM">>
                    /\ tx_status' = "none"
                    /\ UNCHANGED <<show_pc, data_buffer, rmt_busy>>
               ELSE IF res = "ESP_OK"
               THEN /\ data_buffer' = GrbBytes(led_buffer)
                    /\ show_pc' = "wait"
                    /\ tx_status' = "pending"
                    /\ last_ret' = <<"led_show", "pending">>
                    /\ rmt_busy' = TRUE
               ELSE /\ data_buffer' = <<>>
                    /\ last_ret' = <<"led_show", res>>
                    /\ tx_status' = res
                    /\ UNCHANGED <<show_pc, rmt_busy>>
    /\ UNCHANGED <<is_initialized, led_count, led_buffer, led_buffer_snapshot,
                   snapshot_mutex, show_i, readerVars, last_ok_frame, last_published,
                   line_low>>
    /\ UNCHANGED sensorVars

\* rmt_tx_wait_all_done returns, with the snapshot update placed outside the
\* success branch: the snapshot is overwritten when the wait failed as well
led_show_wait_done_copy_on_failure ==
    /\ show_pc = "wait"
    /\ \E res \in WaitDoneResults :
         IF res = "ESP_OK"
         THEN /\ show_pc' = "take"
              /\ tx_status' = res
              /\ last_ok_frame' = led_buffer
              /\ rmt_busy' = FALSE
              /\ line_low' = "short"
              /\ UNCHANGED <<last_ret, data_buffer, led_buffer_snapshot, last_published>>
         ELSE /\ show_pc' = "idle"
              /\ tx_status' = res
              /\ last_ret' = <<"led_show", res>>
              /\ data_buffer' = <<>>
              /\ led_buffer_snapshot' = led_buffer
              /\ last_published' = led_buffer
              /\ UNCHANGED <<last_ok_frame, wireVars>>
    /\ UNCHANGED <<is_initialized, led_count, led_buffer,
                   snapshot_mutex, show_i, readerVars, snap_at_call>>
    /\ UNCHANGED sensorVars

\* rmt_tx_wait_all_done returns: ESP_OK once every transaction of the channel
\* has finished (the line went low after the last bit), ESP_ERR_TIMEOUT while
\* one is still unfinished after 100 ms
led_show_wait_done ==
    /\ show_pc = "wait"
    /\ \E res \in WaitDoneResults :
         IF res = "ESP_OK"
         THEN /\ show_pc' = "take"
              /\ tx_status' = res
              /\ last_ok_frame' = led_buffer
              /\ rmt_busy' = FALSE
              /\ line_low' = "short"
              /\ UNCHANGED <<last_ret, data_buffer>>
         ELSE /\ show_pc' = "idle"
              /\ tx_status' = res
              /\ last_ret' = <<"led_show", res>>
              /\ data_buffer' = <<>>
              /\ UNCHANGED <<last_ok_frame, wireVars>>
    /\ UNCHANGED <<is_initialized, led_count, led_buffer, led_buffer_snapshot,
                   snapshot_mutex, show_i, readerVars, snap_at_call, last_published>>
    /\ UNCHANGED sensorVars

\* xSemaphoreTake(snapshot_mutex, pdMS_TO_TICKS(10)) succeeds
led_show_take ==
    /\ show_pc = "take"
    /\ snapshot_mutex = MutexFree
    /\ snapshot_mutex' = HeldByRender
    /\ show_pc' = "copy"
    /\ show_i' = 0
    /\ UNCHANGED <<is_initialized, led_count, led_buffer, led_buffer_snapshot,
                   last_ret, data_buffer, tx_status, readerVars,
                   last_ok_frame, snap_at_call, last_published>>
    /\ UNCHANGED wireVars
    /\ UNCHANGED sensorVars

\* the take of led_show waiting without a timeout (portMAX_DELAY): while the
\* mutex is held, led_show stays where it is
led_show_take_waits_forever ==
    /\ show_pc = "take"
    /\ snapshot_mutex # MutexFree
    /\ UNCHANGED vars

\* xSemaphoreTake(snapshot_mutex, pdMS_TO_TICKS(10)) times out (a reader holds the
\* mutex for the whole wait) or the mutex is NULL: the memcpy is skipped and
\* led_show returns the ESP_OK of rmt_tx_wait_all_done
led_show_take_timeout ==
    /\ show_pc = "take"
    /\ snapshot_mutex # MutexFree
    /\ show_pc' = "idle"
    /\ last_ret' = <<"led_show", tx_status>>
    /\ data_buffer' = <<>>
    /\ UNCHANGED <<is_initialized, led_count, led_buffer, led_buffer_snapshot,
                   snapshot_mutex, show_i, tx_status, readerVars,
                   last_ok_frame, snap_at_call, last_published>>
    /\ UNCHANGED wireVars
    /\ UNCHANGED sensorVars

\* memcpy(led_buffer_snapshot, led_buffer, ...), one pixel per step, then
\* xSemaphoreGive, free(data_buffer) and return
led_show_copy ==
    /\ show_pc = "copy"
    /\ IF show_i < led_count
       THEN /\ led_buffer_snapshot' =
                   [led_buffer_snapshot EXCEPT ![show_i + 1] = led_buffer[show_i + 1]]
            /\ show_i' = show_i + 1
            /\ UNCHANGED <<snapshot_mutex, show_pc, last_ret, data_buffer,
                           last_published, rd_frames>>
       ELSE /\ snapshot_mutex' = MutexFree
            /\ show_pc' = "idle"
            /\ last_ret' = <<"led_show", tx_status>>
            /\ data_buffer' = <<>>
            /\ last_published' = led_buffer_snapshot
            /\ rd_frames' = [r \in Readers |->
                               IF rd_pc[r] = "copy"
                               THEN rd_frames[r] \cup {led_buffer_snapshot}
                               ELSE rd_frames[r]]
            /\ show_i' = 0
            /\ UNCHANGED led_buffer_snapshot
    /\ UNCHANGED <<is_initialized, led_count, led_buffer, tx_status,
                   rd_pc, rd_i, rd_count, rd_out, rd_ret,
                   last_ok_frame, snap_at_call>>
    /\ UNCHANGED wireVars
    /\ UNCHANGED sensorVars

\* the line has stayed low for the reset interval (WS2812_RESET_TICKS, 50 us)
\* since the last bit of the last frame
reset_interval_elapses ==
    /\ ~rmt_busy
    /\ line_low = "short"
    /\ line_low' = "reset"
    /\ UNCHANGED <<is_initialized, led_count, led_buffer, led_buffer_snapshot,
                   snapshot_mutex, show_pc, show_i, last_ret, data_buffer, tx_status,
                   readerVars, last_ok_frame, snap_at_call, last_published, rmt_busy>>
    /\ UNCHANGED sensorVars

(***************************************************************************)
(* led_get_all_colors                                                      *)
(***************************************************************************)
\* max_count values a caller passes
MaxCounts == 0..(NumLeds + 1)

\* entry: argument checks and copy_count; has_output: output_buffer != NULL
led_get_all_colors_call(r, has_output, max_count) ==
    /\ rd_pc[r] = "idle"
    /\ IF ~is_initialized \/ ~has_output \/ max_count = 0
       THEN /\ rd_ret' = [rd_ret EXCEPT ![r] = 0]
            /\ UNCHANGED <<rd_pc, rd_count, rd_out>>
       ELSE /\ rd_count' = [rd_count EXCEPT ![r] = Min(max_count, led_count)]
            /\ rd_out' = [rd_out EXCEPT ![r] = [k \in 1..max_count |-> Untouched]]
            /\ rd_pc' = [rd_pc EXCEPT ![r] = "take"]
            /\ rd_ret' = [rd_ret EXCEPT ![r] = -1]
    /\ UNCHANGED <<is_initialized, led_count, led_buffer, led_buffer_snapshot,
                   snapshot_mutex, showVars, rd_i, rd_frames,
                   last_ok_frame, snap_at_call, last_published>>
    /\ UNCHANGED sensorVars

\* led_get_all_colors going on to the memcpy without holding snapshot_mutex
led_get_all_colors_take_unlocked(r) ==
    /\ rd_pc[r] = "take"
    /\ rd_pc' = [rd_pc EXCEPT ![r] = "copy"]
    /\ rd_i' = [rd_i EXCEPT ![r] = 0]
    /\ rd_frames' = [rd_frames EXCEPT ![r] = {last_published}]
    /\ UNCHANGED <<is_initialized, led_count, led_buffer, led_buffer_snapshot,
                   snapshot_mutex, showVars, rd_count, rd_out, rd_ret,
                   last_ok_frame, snap_at_call, last_published>>
    /\ UNCHANGED sensorVars

\* xSemaphoreTake(snapshot_mutex, pdMS_TO_TICKS(100)) succeeds
led_get_all_colors_take(r) ==
    /\ rd_pc[r] = "take"
    /\ snapshot_mutex = MutexFree
    /\ snapshot_mutex' = HeldBy(r)
    /\ rd_pc' = [rd_pc EXCEPT ![r] = "copy"]
    /\ rd_i' = [rd_i EXCEPT ![r] = 0]
    /\ rd_frames' = [rd_frames EXCEPT ![r] = {last_published}]
    /\ UNCHANGED <<is_initialized, led_count, led_buffer, led_buffer_snapshot,
                   showVars, rd_count, rd_out, rd_ret,
                   last_ok_frame, snap_at_call, last_published>>
    /\ UNCHANGED sensorVars

\* the timeout path returning copy_count, as if the copy had been made
led_get_all_colors_timeout_returns_count(r) ==
    /\ rd_pc[r] = "take"
    /\ snapshot_mutex # MutexFree
    /\ rd_pc' = [rd_pc EXCEPT ![r] = "idle"]
    /\ rd_ret' = [rd_ret EXCEPT ![r] = rd_count[r]]
    /\ rd_count' = [rd_count EXCEPT ![r] = 0]
    /\ UNCHANGED <<is_initialized, led_count, led_buffer, led_buffer_snapshot,
                   snapshot_mutex, showVars, rd_i, rd_out, rd_frames,
                   last_ok_frame, snap_at_call, last_published>>
    /\ UNCHANGED sensorVars

\* xSemaphoreTake times out (the mutex is held during the whole wait): return
\* 0; the output buffer stays as the caller passed it
led_get_all_colors_timeout(r) ==
    /\ rd_pc[r] = "take"
    /\ is_initialized
    /\ snapshot_mutex # MutexFree
    /\ rd_pc' = [rd_pc EXCEPT ![r] = "idle"]
    /\ rd_ret' = [rd_ret EXCEPT ![r] = 0]
    /\ rd_count' = [rd_count EXCEPT ![r] = 0]
    /\ UNCHANGED <<is_initialized, led_count, led_buffer, led_buffer_snapshot,
                   snapshot_mutex, showVars, rd_i, rd_out, rd_frames,
                   last_ok_frame, snap_at_call, last_published>>
    /\ UNCHANGED sensorVars

\* the memcpy reading the working buffer instead of the snapshot
led_get_all_colors_copy_working_buffer(r) ==
    /\ rd_pc[r] = "copy"
    /\ IF rd_i[r] < rd_count[r]
       THEN /\ rd_out' = [rd_out EXCEPT ![r][rd_i[r] + 1] = led_buffer[rd_i[r] + 1]]
            /\ rd_i' = [rd_i EXCEPT ![r] = rd_i[r] + 1]
            /\ UNCHANGED <<snapshot_mutex, rd_pc, rd_ret, rd_count, rd_frames>>
       ELSE /\ snapshot_mutex' = MutexFree
            /\ rd_pc' = [rd_pc EXCEPT ![r] = "idle"]
            /\ rd_ret' = [rd_ret EXCEPT ![r] = rd_count[r]]
            /\ rd_count' = [rd_count EXCEPT ![r] = 0]
            /\ rd_i' = [rd_i EXCEPT ![r] = 0]
            /\ rd_out' = [rd_out EXCEPT ![r] = <<>>]
            /\ rd_frames' = [rd_frames EXCEPT ![r] = {}]
    /\ UNCHANGED <<is_initialized, led_count, led_buffer, led_buffer_snapshot,
                   showVars,
                   last_ok_frame, snap_at_call, last_published>>
    /\ UNCHANGED sensorVars

\* memcpy(output_buffer, led_buffer_snapshot, ...), one pixel per step, then
\* xSemaphoreGive and return copy_count
led_get_all_colors_copy(r) ==
    /\ rd_pc[r] = "copy"
    /\ is_initialized
    /\ IF rd_i[r] < rd_count[r]
       THEN /\ rd_out' = [rd_out EXCEPT ![r][rd_i[r] + 1] = led_buffer_snapshot[rd_i[r] + 1]]
            /\ rd_i' = [rd_i EXCEPT ![r] = rd_i[r] + 1]
            /\ UNCHANGED <<snapshot_mutex, rd_pc, rd_ret, rd_count, rd_frames>>
       ELSE /\ snapshot_mutex' = MutexFree
            /\ rd_pc' = [rd_pc EXCEPT ![r] = "idle"]
            /\ rd_ret' = [rd_ret EXCEPT ![r] = rd_count[r]]
            /\ rd_count' = [rd_count EXCEPT ![r] = 0]
            /\ rd_i' = [rd_i EXCEPT ![r] = 0]
            /\ rd_out' = [rd_out EXCEPT ![r] = <<>>]
            /\ rd_frames' = [rd_frames EXCEPT ![r] = {}]
    /\ UNCHANGED <<is_initialized, led_count, led_buffer, led_buffer_snapshot,
                   showVars,
                   last_ok_frame, snap_at_call, last_published>>
    /\ UNCHANGED sensorVars

\* led_get_all_colors going on after led_controller_deinit has run under it
\* (the call had passed the is_initialized test of line 398). Waiting for the
\* mutex: xSemaphoreTake on the NULL handle fails its configASSERT (panic).
\* Inside the memcpy: the rest is read from the freed snapshot and
\* xSemaphoreGive is called on the deleted mutex, which panics or goes on
\* with what the freed memory holds.
led_get_all_colors_after_deinit(r) ==
    /\ rd_pc[r] \in {"take", "copy"}
    /\ ~is_initialized
    /\ rd_pc' \in IF rd_pc[r] = "take"
                   THEN {[rd_pc EXCEPT ![r] = "panic"]}
                   ELSE {[rd_pc EXCEPT ![r] = "panic"],
                         [rd_pc EXCEPT ![r] = "freed_memory_read"]}
    /\ UNCHANGED <<is_initialized, led_count, led_buffer, led_buffer_snapshot,
                   snapshot_mutex, showVars, rd_i, rd_count, rd_out, rd_ret, rd_frames,
                   last_ok_frame, snap_at_call, last_published>>
    /\ UNCHANGED sensorVars

(***************************************************************************)
(* Specification of the LED controller                                     *)
(***************************************************************************)
LedInit ==
    /\ is_initialized = FALSE
    /\ led_count = 0
    /\ led_buffer = <<>>
    /\ led_buffer_snapshot = <<>>
    /\ snapshot_mutex = MutexNull
    /\ show_pc = "idle"
    /\ show_i = 0
    /\ last_ret = <<"none", "none">>
    /\ tx_status = "none"
    /\ data_buffer = <<>>
    /\ rd_pc = [r \in Readers |-> "idle"]
    /\ rd_i = [r \in Readers |-> 0]
    /\ rd_count = [r \in Readers |-> 0]
    /\ rd_out = [r \in Readers |-> <<>>]
    /\ rd_ret = [r \in Readers |-> -1]
    /\ last_ok_frame = <<>>
    /\ snap_at_call = <<>>
    /\ last_published = <<>>
    /\ rd_frames = [r \in Readers |-> {}]
    /\ rmt_busy = FALSE
    /\ line_low = "reset"

LedNext ==
    \/ led_controller_init
    \/ \E index \in 0..NumLeds, color \in Colors : led_set_pixel(index, color)
    \/ led_clear_all
    \/ led_show_transmit
    \/ led_show_wait_done
    \/ led_show_take
    \/ led_show_take_timeout
    \/ led_show_copy
    \/ \E r \in Readers, max_count \in MaxCounts :
          led_get_all_colors_call(r, TRUE, max_count)
    \/ \E r \in Readers : led_get_all_colors_take(r)
    \/ \E r \in Readers : led_get_all_colors_timeout(r)
    \/ \E r \in Readers : led_get_all_colors_copy(r)

(***************************************************************************)
(* Distance sensor: constants and types                                    *)
(***************************************************************************)
RAW_QUEUE_SIZE == 2

PROCESSED_QUEUE_SIZE == 5

\* out-of-range limits of the measurement task, in millimetres
MinDistanceMm == 20

MaxDistanceMm == 4000

\* defaults distance_sensor_init uses when a key is not in the store
DefaultTimeoutMs == 30

DefaultTemperature == 200

DefaultSmoothingFactor == 300

U16 == 65536

Consumers == 1..NumConsumers

\* tasks that call distance_sensor_start
Starters == 1..NumStarters

\* distance_measurement_t; seq is the production number of the reading (history)
Reading(d, t, st, n) == [distance_mm |-> d, timestamp_us |-> t, status |-> st, seq |-> n]

NoReading == Reading(0, 0, "none", 0)

\* distance_raw_measurement_t
RawMeasurement(s, e) == [echo_start_us |-> s, echo_end_us |-> e, status |-> "DISTANCE_SENSOR_OK"]

(***************************************************************************)
(* Pure functions of distance_sensor.c                                     *)
(***************************************************************************)
\* int32 arithmetic; for the temperatures of the model the sum is positive and
\* below 2^31, so the cast to uint32_t changes nothing
calculate_speed_of_sound_scaled(temperature_c_x10) ==
    (331300000 + (606 * temperature_c_x10 * 100)) \div 1000

\* the distance without the halving for the round trip
DistanceScaled_one_way(duration_us, speed) ==
    (((duration_us \div 1000) * speed) + (((duration_us % 1000) * speed) \div 1000)) \div 1000

\* distance_mm_scaled = (uint32_t)((echo_duration_us * (uint64_t)speed) / 2000000).
\* The 64-bit product is evaluated in two parts so that every intermediate value
\* stays below 2^31: with d = 1000*h + l,
\*   (d * speed) div 2000000 = (h * speed + (l * speed) div 1000) div 2000.
\* Durations of the model are below 2^22 us, so neither the 64-bit product nor
\* the cast to uint32_t wraps.
DistanceScaled(duration_us, speed) ==
    (((duration_us \div 1000) * speed) + (((duration_us % 1000) * speed) \div 1000)) \div 2000

\* uint16_t distance_mm = (uint16_t)distance_mm_scaled
DistanceMm(duration_us, speed) == DistanceScaled(duration_us, speed) % U16

\* the range check without its upper limit
OutOfRange_lower_limit_only(distance_mm) == distance_mm < MinDistanceMm

\* the range check of the measurement task
OutOfRange(distance_mm) == distance_mm < MinDistanceMm \/ distance_mm > MaxDistanceMm

\* the two products computed in 16 bits (uint16_t operands without promotion)
EmaBlend_16bit_products(factor, new_mm, previous_mm) ==
    ((((factor * new_mm) % U16) + (((1000 - factor) * previous_mm) % U16)) \div 1000) % U16

\* the weights exchanged: factor weighs the previous value
EmaBlend_weights_exchanged(factor, new_mm, previous_mm) ==
    ((((1000 - factor) * new_mm) + (factor * previous_mm)) \div 1000) % U16

\* the blended value apply_ema_filter_int computes once the filter is initialized
\* (int arithmetic assigned to uint32_t: no wrap for factor in 0..1000)
EmaBlend(factor, new_mm, previous_mm) ==
    (((factor * new_mm) + ((1000 - factor) * previous_mm)) \div 1000) % U16

\* the filter without its first-sample branch: the first sample is blended with
\* the initial previous value
apply_ema_filter_int_always_blend(new_mm) ==
    EmaBlend(sensor_config.smoothing_factor, new_mm, previous_smoothed_value_mm)

\* return value of apply_ema_filter_int in the current filter state
apply_ema_filter_int(new_mm) ==
    IF ~smoothing_initialized
    THEN new_mm
    ELSE EmaBlend(sensor_config.smoothing_factor, new_mm, previous_smoothed_value_mm)

(***************************************************************************)
(* echo_isr_handler                                                        *)
(***************************************************************************)
\* the handler leaving measurement_in_progress set after a falling edge
echo_isr_handler_flag_kept(level, elapsed, max_echoes) ==
    /\ isr_handler_added
    /\ raw_queue_handle = "valid"
    /\ IF level = 1
       THEN /\ echo_start_time' = now
            /\ measurement_in_progress' = TRUE
            /\ UNCHANGED <<raw_measurement_queue, now, echoes>>
       ELSE IF measurement_in_progress
       THEN /\ echoes < max_echoes
            /\ now' = now + elapsed
            /\ echoes' = echoes + 1
            /\ raw_measurement_queue' =
                  IF Len(raw_measurement_queue) < RAW_QUEUE_SIZE
                  THEN Append(raw_measurement_queue, RawMeasurement(echo_start_time, now'))
                  ELSE raw_measurement_queue
            /\ UNCHANGED <<echo_start_time, measurement_in_progress>>
       ELSE UNCHANGED <<echo_start_time, measurement_in_progress, raw_measurement_queue,
                        now, echoes>>
    /\ UNCHANGED <<sensor_config, sensor_task_handle, processed_measurement_queue,
                   queue_overflow_counter, previous_smoothed_value_mm, smoothing_initialized,
                   task_pc, speed_of_sound_scaled, echo_duration_us, processed,
                   cons_pc, last_delivered, cycles, enq_in_cycle, n_evicted>>
    /\ UNCHANGED <<hist, lifeVars, ledVars>>

\* level: gpio_get_level(echo_pin); elapsed: microseconds since the clock was last read;
\* max_echoes bounds the number of pulses timed
echo_isr_handler(level, elapsed, max_echoes) ==
    /\ isr_handler_added
    /\ raw_queue_handle = "valid"
    /\ IF level = 1
       THEN /\ echo_start_time' = now
            /\ measurement_in_progress' = TRUE
            /\ UNCHANGED <<raw_measurement_queue, now, echoes>>
       ELSE IF measurement_in_progress
       THEN /\ echoes < max_echoes
            /\ now' = now + elapsed
            /\ echoes' = echoes + 1
            /\ raw_measurement_queue' =
                  IF Len(raw_measurement_queue) < RAW_QUEUE_SIZE
                  THEN Append(raw_measurement_queue, RawMeasurement(echo_start_time, now'))
                  ELSE raw_measurement_queue
            /\ measurement_in_progress' = FALSE
            /\ UNCHANGED echo_start_time
       ELSE UNCHANGED <<echo_start_time, measurement_in_progress, raw_measurement_queue,
                        now, echoes>>
    /\ UNCHANGED <<sensor_config, sensor_task_handle, processed_measurement_queue,
                   queue_overflow_counter, previous_smoothed_value_mm, smoothing_initialized,
                   task_pc, speed_of_sound_scaled, echo_duration_us, processed,
                   cons_pc, last_delivered, cycles, enq_in_cycle, n_evicted>>
    /\ UNCHANGED <<hist, lifeVars, ledVars>>

\* the handler while raw_measurement_queue is no queue: NULL (not yet created,
\* or its creation failed) or the handle of the queue distance_sensor_init
\* deleted. xQueueSendFromISR on NULL fails its configASSERT or dereferences
\* NULL (panic); on a deleted queue it works on freed memory, which panics or
\* writes into the freed block.
echo_isr_handler_no_queue(level) ==
    /\ isr_handler_added
    /\ raw_queue_handle # "valid"
    /\ isr_fault = "none"
    /\ IF level = 1
       THEN /\ echo_start_time' = now
            /\ measurement_in_progress' = TRUE
            /\ UNCHANGED isr_fault
       ELSE /\ measurement_in_progress
            /\ isr_fault' \in IF raw_queue_handle = "NULL"
                               THEN {"panic"}
                               ELSE {"panic", "freed_memory_written"}
            /\ measurement_in_progress' = FALSE
            /\ UNCHANGED echo_start_time
    /\ UNCHANGED <<sensor_config, sensor_task_handle, raw_measurement_queue,
                   processed_measurement_queue, queue_overflow_counter,
                   previous_smoothed_value_mm, smoothing_initialized, now,
                   task_pc, speed_of_sound_scaled, echo_duration_us, processed,
                   cons_pc, last_delivered, cycles, echoes, enq_in_cycle, n_evicted>>
    /\ UNCHANGED <<hist, live_tasks, start_pc, life_ret, queues_created, has_new_ret, displayVars,
                   trigger_level, raw_at_trigger, init_pc, isr_handler_added,
                   raw_queue_handle, ledVars>>

(***************************************************************************)
(* distance_sensor_start and distance_sensor_task                          *)
(***************************************************************************)
\* distance_sensor_start clearing the overflow statistics for the new task
distance_sensor_start_resets_counter ==
    /\ sensor_task_handle = "NULL"
    /\ sensor_task_handle' = "task"
    /\ live_tasks' = live_tasks + 1
    /\ life_ret' = <<"distance_sensor_start", "ESP_OK">>
    /\ task_pc' = "trigger"
    /\ speed_of_sound_scaled' = calculate_speed_of_sound_scaled(sensor_config.temperature_c_x10)
    /\ queue_overflow_counter' = 0
    /\ UNCHANGED <<sensor_config, raw_measurement_queue, processed_measurement_queue,
                   previous_smoothed_value_mm, smoothing_initialized,
                   echo_start_time, measurement_in_progress, now,
                   echo_duration_us, processed, cons_pc, last_delivered,
                   cycles, echoes, enq_in_cycle, n_evicted>>
    /\ UNCHANGED <<hist, start_pc, apiVars, ledVars>>

distance_sensor_start ==
    /\ sensor_task_handle = "NULL"
    /\ sensor_task_handle' = "task"
    /\ live_tasks' = live_tasks + 1
    /\ life_ret' = <<"distance_sensor_start", "ESP_OK">>
    /\ task_pc' = "trigger"
    /\ speed_of_sound_scaled' = calculate_speed_of_sound_scaled(sensor_config.temperature_c_x10)
    /\ UNCHANGED <<sensor_config, raw_measurement_queue, processed_measurement_queue,
                   queue_overflow_counter, previous_smoothed_value_mm, smoothing_initialized,
                   echo_start_time, measurement_in_progress, now,
                   echo_duration_us, processed, cons_pc, last_delivered,
                   cycles, echoes, enq_in_cycle, n_evicted>>
    /\ UNCHANGED <<hist, start_pc, apiVars, ledVars>>

\* distance_sensor_start as concurrent callers run it, first step: the test of
\* sensor_task_handle
distance_sensor_start_check(s) ==
    /\ start_pc[s] = "idle"
    /\ IF sensor_task_handle # "NULL"
       THEN /\ life_ret' = <<"distance_sensor_start", "ESP_ERR_INVALID_STATE">>
            /\ UNCHANGED start_pc
       ELSE /\ start_pc' = [start_pc EXCEPT ![s] = "create"]
            /\ UNCHANGED life_ret
    /\ UNCHANGED <<sensor_config, sensor_task_handle, raw_measurement_queue,
                   processed_measurement_queue, queue_overflow_counter,
                   previous_smoothed_value_mm, smoothing_initialized,
                   echo_start_time, measurement_in_progress, now,
                   task_pc, speed_of_sound_scaled, echo_duration_us, processed,
                   cons_pc, last_delivered,
                   cycles, echoes, enq_in_cycle, n_evicted, hist, live_tasks>>
    /\ UNCHANGED <<apiVars, ledVars>>

\* second step: xTaskCreatePinnedToCore, which on success stores the handle of
\* the new task in sensor_task_handle. task_pc and the task locals are those of
\* the task sensor_task_handle names; a task whose handle was overwritten keeps
\* running and is counted in live_tasks only. max_tasks bounds the tasks in
\* existence.
distance_sensor_start_create(s, max_tasks) ==
    /\ start_pc[s] = "create"
    /\ live_tasks < max_tasks
    /\ start_pc' = [start_pc EXCEPT ![s] = "idle"]
    /\ \E result \in {"pdPASS", "errCOULD_NOT_ALLOCATE_REQUIRED_MEMORY"} :
         IF result = "pdPASS"
         THEN /\ sensor_task_handle' = "task"
              /\ live_tasks' = live_tasks + 1
              /\ task_pc' = "trigger"
              /\ speed_of_sound_scaled' =
                    calculate_speed_of_sound_scaled(sensor_config.temperature_c_x10)
              /\ echo_duration_us' = 0
              /\ processed' = NoReading
              /\ life_ret' = <<"distance_sensor_start", "ESP_OK">>
         ELSE /\ life_ret' = <<"distance_sensor_start", "ESP_FAIL">>
              /\ UNCHANGED <<sensor_task_handle, live_tasks, task_pc,
                             speed_of_sound_scaled, echo_duration_us, processed>>
    /\ UNCHANGED <<sensor_config, raw_measurement_queue,
                   processed_measurement_queue, queue_overflow_counter,
                   previous_smoothed_value_mm, smoothing_initialized,
                   echo_start_time, measurement_in_progress, now,
                   cons_pc, last_delivered,
                   cycles, echoes, enq_in_cycle, n_evicted, hist>>
    /\ UNCHANGED <<apiVars, ledVars>>

\* distance_sensor_stop: vTaskDelete(sensor_task_handle) ends the task wherever
\* it is in its cycle; its locals go with its stack
distance_sensor_stop ==
    /\ IF sensor_task_handle = "NULL"
       THEN /\ life_ret' = <<"distance_sensor_stop", "ESP_ERR_INVALID_STATE">>
            /\ UNCHANGED <<sensor_task_handle, live_tasks, task_pc,
                           speed_of_sound_scaled, echo_duration_us, processed>>
       ELSE /\ sensor_task_handle' = "NULL"
            /\ live_tasks' = live_tasks - 1
            /\ task_pc' = "none"
            /\ speed_of_sound_scaled' = 0
            /\ echo_duration_us' = 0
            /\ processed' = NoReading
            /\ life_ret' = <<"distance_sensor_stop", "ESP_OK">>
    /\ UNCHANGED <<sensor_config, raw_measurement_queue,
                   processed_measurement_queue, queue_overflow_counter,
                   previous_smoothed_value_mm, smoothing_initialized,
                   echo_start_time, measurement_in_progress, now,
                   cons_pc, last_delivered,
                   cycles, echoes, enq_in_cycle, n_evicted, hist, start_pc>>
    /\ UNCHANGED <<apiVars, ledVars>>

\* distance_sensor_is_running
distance_sensor_is_running == sensor_task_handle # "NULL"

\* 1. trigger pulse (after the vTaskDelay of the previous cycle): the pin goes
\* high, the task busy-waits 10 us and the pin goes low, with nothing else
\* happening in between
task_trigger(max_cycles) ==
    /\ sensor_task_handle = "task"
    /\ task_pc = "trigger"
    /\ cycles < max_cycles
    /\ cycles' = cycles + 1
    /\ enq_in_cycle' = 0
    /\ echo_duration_us' = 0
    /\ processed' = NoReading
    /\ trigger_level' = 0
    /\ raw_at_trigger' = Len(raw_measurement_queue)
    /\ task_pc' = "await"
    /\ UNCHANGED <<sensor_config, sensor_task_handle, raw_measurement_queue,
                   processed_measurement_queue, queue_overflow_counter,
                   previous_smoothed_value_mm, smoothing_initialized,
                   echo_start_time, measurement_in_progress, now, speed_of_sound_scaled,
                   cons_pc, last_delivered, echoes, n_evicted>>
    /\ UNCHANGED <<hist, live_tasks, start_pc, life_ret, queues_created, has_new_ret, displayVars,
                   initVars, ledVars>>

\* 1. the trigger pulse step by step: gpio_set_level(trigger_pin, 1) ...
task_trigger_high(max_cycles) ==
    /\ sensor_task_handle = "task"
    /\ task_pc = "trigger"
    /\ cycles < max_cycles
    /\ cycles' = cycles + 1
    /\ enq_in_cycle' = 0
    /\ echo_duration_us' = 0
    /\ processed' = NoReading
    /\ trigger_level' = 1
    /\ raw_at_trigger' = Len(raw_measurement_queue)
    /\ task_pc' = "pulse"
    /\ UNCHANGED <<sensor_config, sensor_task_handle, raw_measurement_queue,
                   processed_measurement_queue, queue_overflow_counter,
                   previous_smoothed_value_mm, smoothing_initialized,
                   echo_start_time, measurement_in_progress, now, speed_of_sound_scaled,
                   cons_pc, last_delivered, echoes, n_evicted>>
    /\ UNCHANGED <<hist, live_tasks, start_pc, life_ret, queues_created, has_new_ret, displayVars,
                   initVars, ledVars>>

\* ... esp_rom_delay_us(10) has run out: gpio_set_level(trigger_pin, 0)
task_trigger_low ==
    /\ sensor_task_handle = "task"
    /\ task_pc = "pulse"
    /\ trigger_level' = 0
    /\ task_pc' = "await"
    /\ UNCHANGED <<sensor_config, sensor_task_handle, raw_measurement_queue,
                   processed_measurement_queue, queue_overflow_counter,
                   previous_smoothed_value_mm, smoothing_initialized,
                   echo_start_time, measurement_in_progress, now, speed_of_sound_scaled,
                   echo_duration_us, processed,
                   cons_pc, last_delivered, cycles, echoes, enq_in_cycle, n_evicted>>
    /\ UNCHANGED <<hist, live_tasks, start_pc, life_ret, queues_created, has_new_ret, displayVars,
                   raw_at_trigger, initVars, ledVars>>

\* 2.-5. xQueueReceive(raw_measurement_queue) == pdPASS: compute, validate, smooth
task_receive_raw(record) ==
    /\ sensor_task_handle = "task"
    /\ task_pc = "await"
    /\ queues_created
    /\ Len(raw_measurement_queue) > 0
    /\ LET raw_data    == Head(raw_measurement_queue)
           duration    == raw_data.echo_end_us - raw_data.echo_start_us
           distance_mm == DistanceMm(duration, speed_of_sound_scaled)
       IN  /\ raw_measurement_queue' = Tail(raw_measurement_queue)
           /\ echo_duration_us' = duration
           /\ IF OutOfRange(distance_mm)
              THEN /\ processed' = Reading(distance_mm, raw_data.echo_end_us,
                                           "DISTANCE_SENSOR_OUT_OF_RANGE", cycles)
                   /\ UNCHANGED <<previous_smoothed_value_mm, smoothing_initialized>>
              ELSE /\ processed' = Reading(apply_ema_filter_int(distance_mm),
                                           raw_data.echo_end_us, "DISTANCE_SENSOR_OK", cycles)
                   /\ previous_smoothed_value_mm' = apply_ema_filter_int(distance_mm)
                   /\ smoothing_initialized' = TRUE
           /\ hist' = IF record
                      THEN Append(hist, [raw_mm      |-> distance_mm,
                                         out_mm      |-> processed'.distance_mm,
                                         status      |-> processed'.status,
                                         previous    |-> previous_smoothed_value_mm',
                                         initialized |-> smoothing_initialized'])
                      ELSE hist
    /\ task_pc' = "send"
    /\ UNCHANGED <<sensor_config, sensor_task_handle, processed_measurement_queue,
                   queue_overflow_counter, echo_start_time, measurement_in_progress, now,
                   speed_of_sound_scaled, cons_pc, last_delivered,
                   cycles, echoes, enq_in_cycle, n_evicted>>
    /\ UNCHANGED <<lifeVars, ledVars>>

\* the timeout answered by a new trigger instead of a reading
task_receive_timeout_retry ==
    /\ sensor_task_handle = "task"
    /\ task_pc = "await"
    /\ queues_created
    /\ Len(raw_measurement_queue) = 0
    /\ now' = now + (sensor_config.timeout_ms * 1000)
    /\ task_pc' = "trigger"
    /\ UNCHANGED <<sensor_config, sensor_task_handle, raw_measurement_queue,
                   processed_measurement_queue, queue_overflow_counter,
                   previous_smoothed_value_mm, smoothing_initialized,
                   echo_start_time, measurement_in_progress,
                   speed_of_sound_scaled, echo_duration_us, processed, cons_pc, last_delivered,
                   cycles, echoes, enq_in_cycle, n_evicted>>
    /\ UNCHANGED <<hist, lifeVars, ledVars>>

\* the timeout path restarting the filter
task_receive_timeout_resets_filter ==
    /\ sensor_task_handle = "task"
    /\ task_pc = "await"
    /\ queues_created
    /\ Len(raw_measurement_queue) = 0
    /\ now' = now + (sensor_config.timeout_ms * 1000)
    /\ processed' = Reading(0, now', "DISTANCE_SENSOR_TIMEOUT", cycles)
    /\ previous_smoothed_value_mm' = 0
    /\ smoothing_initialized' = FALSE
    /\ task_pc' = "send"
    /\ UNCHANGED <<sensor_config, sensor_task_handle, raw_measurement_queue,
                   processed_measurement_queue, queue_overflow_counter,
                   echo_start_time, measurement_in_progress,
                   speed_of_sound_scaled, echo_duration_us, cons_pc, last_delivered,
                   cycles, echoes, enq_in_cycle, n_evicted>>
    /\ UNCHANGED <<hist, lifeVars, ledVars>>

\* 2. xQueueReceive(raw_measurement_queue) times out after timeout_ms
task_receive_timeout ==
    /\ sensor_task_handle = "task"
    /\ task_pc = "await"
    /\ queues_created
    /\ Len(raw_measurement_queue) = 0
    /\ now' = now + (sensor_config.timeout_ms * 1000)
    /\ processed' = Reading(0, now', "DISTANCE_SENSOR_TIMEOUT", cycles)
    /\ task_pc' = "send"
    /\ UNCHANGED <<sensor_config, sensor_task_handle, raw_measurement_queue,
                   processed_measurement_queue, queue_overflow_counter,
                   previous_smoothed_value_mm, smoothing_initialized,
                   echo_start_time, measurement_in_progress,
                   speed_of_sound_scaled, echo_duration_us, cons_pc, last_delivered,
                   cycles, echoes, enq_in_cycle, n_evicted>>
    /\ UNCHANGED <<hist, lifeVars, ledVars>>

\* 2. xQueueReceive(raw_measurement_queue) with a handle that is no queue.
\* NULL (distance_sensor_init has not created the queue): the configASSERT of
\* xQueueReceive fails, or with assertions compiled out the NULL handle is
\* dereferenced; either way the firmware panics. The handle of the queue a
\* failed distance_sensor_init deleted: the receive works on freed memory,
\* which panics or goes on with what it read there.
task_receive_null_queue ==
    /\ sensor_task_handle = "task"
    /\ task_pc = "await"
    /\ raw_queue_handle # "valid"
    /\ task_pc' \in IF raw_queue_handle = "NULL"
                     THEN {"panic"}
                     ELSE {"panic", "freed_memory_read"}
    /\ UNCHANGED <<sensor_config, sensor_task_handle, raw_measurement_queue,
                   processed_measurement_queue, queue_overflow_counter,
                   previous_smoothed_value_mm, smoothing_initialized,
                   echo_start_time, measurement_in_progress, now,
                   speed_of_sound_scaled, echo_duration_us, processed, cons_pc, last_delivered,
                   cycles, echoes, enq_in_cycle, n_evicted>>
    /\ UNCHANGED <<hist, lifeVars, ledVars>>

\* the first xQueueSend on a queue that takes a sixth entry
task_send_beyond_capacity ==
    /\ sensor_task_handle = "task"
    /\ task_pc = "send"
    /\ processed_measurement_queue' = Append(processed_measurement_queue, processed)
    /\ enq_in_cycle' = enq_in_cycle + 1
    /\ task_pc' = "trigger"
    /\ UNCHANGED <<sensor_config, sensor_task_handle, raw_measurement_queue,
                   queue_overflow_counter, previous_smoothed_value_mm, smoothing_initialized,
                   echo_start_time, measurement_in_progress, now,
                   speed_of_sound_scaled, echo_duration_us, processed, cons_pc, last_delivered,
                   cycles, echoes, n_evicted>>
    /\ UNCHANGED <<hist, lifeVars, ledVars>>

\* 6. first xQueueSend(processed_measurement_queue, &processed, 0)
task_send ==
    /\ sensor_task_handle = "task"
    /\ task_pc = "send"
    /\ IF Len(processed_measurement_queue) < PROCESSED_QUEUE_SIZE
       THEN /\ processed_measurement_queue' = Append(processed_measurement_queue, processed)
            /\ enq_in_cycle' = enq_in_cycle + 1
            /\ task_pc' = "trigger"
       ELSE /\ task_pc' = "evict"
            /\ UNCHANGED <<processed_measurement_queue, enq_in_cycle>>
    /\ UNCHANGED <<sensor_config, sensor_task_handle, raw_measurement_queue,
                   queue_overflow_counter, previous_smoothed_value_mm, smoothing_initialized,
                   echo_start_time, measurement_in_progress, now,
                   speed_of_sound_scaled, echo_duration_us, processed, cons_pc, last_delivered,
                   cycles, echoes, n_evicted>>
    /\ UNCHANGED <<hist, lifeVars, ledVars>>

\* the eviction removing the newest entry of the queue instead of the oldest
task_evict_newest ==
    /\ sensor_task_handle = "task"
    /\ task_pc = "evict"
    /\ IF Len(processed_measurement_queue) > 0
       THEN /\ processed_measurement_queue' =
                  SubSeq(processed_measurement_queue, 1, Len(processed_measurement_queue) - 1)
            /\ n_evicted' = n_evicted + 1
            /\ task_pc' = "resend"
       ELSE /\ task_pc' = IF processed.status = "DISTANCE_SENSOR_TIMEOUT"
                          THEN "resend" ELSE "trigger"
            /\ UNCHANGED <<processed_measurement_queue, n_evicted>>
    /\ UNCHANGED <<sensor_config, sensor_task_handle, raw_measurement_queue,
                   queue_overflow_counter, previous_smoothed_value_mm, smoothing_initialized,
                   echo_start_time, measurement_in_progress, now,
                   speed_of_sound_scaled, echo_duration_us, processed, cons_pc, last_delivered,
                   cycles, echoes, enq_in_cycle, hist>>
    /\ UNCHANGED <<lifeVars, ledVars>>

\* xQueueReceive(processed_measurement_queue, &dummy, 0): the echo branch goes on
\* only if it returned pdTRUE, the timeout branch ignores the result
task_evict ==
    /\ sensor_task_handle = "task"
    /\ task_pc = "evict"
    /\ IF Len(processed_measurement_queue) > 0
       THEN /\ processed_measurement_queue' = Tail(processed_measurement_queue)
            /\ n_evicted' = n_evicted + 1
            /\ task_pc' = "resend"
       ELSE /\ task_pc' = IF processed.status = "DISTANCE_SENSOR_TIMEOUT"
                          THEN "resend" ELSE "trigger"
            /\ UNCHANGED <<processed_measurement_queue, n_evicted>>
    /\ UNCHANGED <<sensor_config, sensor_task_handle, raw_measurement_queue,
                   queue_overflow_counter, previous_smoothed_value_mm, smoothing_initialized,
                   echo_start_time, measurement_in_progress, now,
                   speed_of_sound_scaled, echo_duration_us, processed, cons_pc, last_delivered,
                   cycles, echoes, enq_in_cycle>>
    /\ UNCHANGED <<hist, lifeVars, ledVars>>

\* the retry enqueuing at the front of the queue (xQueueSendToFront)
task_resend_to_front ==
    /\ sensor_task_handle = "task"
    /\ task_pc = "resend"
    /\ IF Len(processed_measurement_queue) < PROCESSED_QUEUE_SIZE
       THEN /\ processed_measurement_queue' = <<processed>> \o processed_measurement_queue
            /\ enq_in_cycle' = enq_in_cycle + 1
       ELSE UNCHANGED <<processed_measurement_queue, enq_in_cycle>>
    /\ task_pc' = "count"
    /\ UNCHANGED <<sensor_config, sensor_task_handle, raw_measurement_queue,
                   queue_overflow_counter, previous_smoothed_value_mm, smoothing_initialized,
                   echo_start_time, measurement_in_progress, now,
                   speed_of_sound_scaled, echo_duration_us, processed, cons_pc, last_delivered,
                   cycles, echoes, n_evicted, hist>>
    /\ UNCHANGED <<lifeVars, ledVars>>

\* second xQueueSend(processed_measurement_queue, &processed, 0)
task_resend ==
    /\ sensor_task_handle = "task"
    /\ task_pc = "resend"
    /\ IF Len(processed_measurement_queue) < PROCESSED_QUEUE_SIZE
       THEN /\ processed_measurement_queue' = Append(processed_measurement_queue, processed)
            /\ enq_in_cycle' = enq_in_cycle + 1
       ELSE UNCHANGED <<processed_measurement_queue, enq_in_cycle>>
    /\ task_pc' = "count"
    /\ UNCHANGED <<sensor_config, sensor_task_handle, raw_measurement_queue,
                   queue_overflow_counter, previous_smoothed_value_mm, smoothing_initialized,
                   echo_start_time, measurement_in_progress, now,
                   speed_of_sound_scaled, echo_duration_us, processed, cons_pc, last_delivered,
                   cycles, echoes, n_evicted>>
    /\ UNCHANGED <<hist, lifeVars, ledVars>>

\* queue_overflow_counter++
task_count ==
    /\ sensor_task_handle = "task"
    /\ task_pc = "count"
    /\ queue_overflow_counter' = queue_overflow_counter + 1
    /\ task_pc' = "trigger"
    /\ UNCHANGED <<sensor_config, sensor_task_handle, raw_measurement_queue,
                   processed_measurement_queue, previous_smoothed_value_mm,
                   smoothing_initialized, echo_start_time, measurement_in_progress, now,
                   speed_of_sound_scaled, echo_duration_us, processed, cons_pc, last_delivered,
                   cycles, echoes, enq_in_cycle, n_evicted>>
    /\ UNCHANGED <<hist, lifeVars, ledVars>>

(***************************************************************************)
(* distance_sensor_get_latest                                              *)
(***************************************************************************)
\* distance_sensor_get_latest is a public function: its callers are tasks of any
\* priority on either core, so their steps interleave with every step of the
\* measurement task (display_logic_task, the caller in this repository, runs at
\* priority 3 on the core of the measurement task, priority 5).
\* entry: measurement != NULL, the caller blocks in xQueueReceive(portMAX_DELAY);
\* with processed_measurement_queue still NULL that call panics
distance_sensor_get_latest_call(c) ==
    /\ cons_pc[c] = "idle"
    /\ cons_pc' = [cons_pc EXCEPT ![c] = IF queues_created THEN "blocked" ELSE "panic"]
    /\ UNCHANGED <<sensor_config, sensor_task_handle, raw_measurement_queue,
                   processed_measurement_queue, queue_overflow_counter,
                   previous_smoothed_value_mm, smoothing_initialized,
                   echo_start_time, measurement_in_progress, now,
                   task_pc, speed_of_sound_scaled, echo_duration_us, processed,
                   last_delivered, cycles, echoes, enq_in_cycle, n_evicted>>
    /\ UNCHANGED <<hist, lifeVars, ledVars>>

\* xQueuePeek in place of xQueueReceive: the reading stays in the queue
distance_sensor_get_latest_return_peek(c) ==
    /\ cons_pc[c] = "blocked"
    /\ Len(processed_measurement_queue) > 0
    /\ last_delivered' = Head(processed_measurement_queue)
    /\ cons_pc' = [cons_pc EXCEPT ![c] = "idle"]
    /\ UNCHANGED <<sensor_config, sensor_task_handle, raw_measurement_queue,
                   processed_measurement_queue,
                   queue_overflow_counter, previous_smoothed_value_mm, smoothing_initialized,
                   echo_start_time, measurement_in_progress, now,
                   task_pc, speed_of_sound_scaled, echo_duration_us, processed,
                   cycles, echoes, enq_in_cycle, n_evicted, hist>>
    /\ UNCHANGED <<lifeVars, ledVars>>

\* xQueueReceive returns pdTRUE with the oldest reading
distance_sensor_get_latest_return(c) ==
    /\ cons_pc[c] = "blocked"
    /\ Len(processed_measurement_queue) > 0
    /\ last_delivered' = Head(processed_measurement_queue)
    /\ processed_measurement_queue' = Tail(processed_measurement_queue)
    /\ cons_pc' = [cons_pc EXCEPT ![c] = "idle"]
    /\ UNCHANGED <<sensor_config, sensor_task_handle, raw_measurement_queue,
                   queue_overflow_counter, previous_smoothed_value_mm, smoothing_initialized,
                   echo_start_time, measurement_in_progress, now,
                   task_pc, speed_of_sound_scaled, echo_duration_us, processed,
                   cycles, echoes, enq_in_cycle, n_evicted>>
    /\ UNCHANGED <<hist, lifeVars, ledVars>>

(***************************************************************************)
(* Initial states                                                          *)
(***************************************************************************)
(***************************************************************************)
(* distance_sensor_has_new_measurement                                     *)
(***************************************************************************)
\* the predicate looking at the raw queue instead of the processed queue
distance_sensor_has_new_measurement_raw_queue == Len(raw_measurement_queue) > 0

\* uxQueueMessagesWaiting(processed_measurement_queue) > 0
distance_sensor_has_new_measurement == Len(processed_measurement_queue) > 0

\* a consumer calls distance_sensor_has_new_measurement; with the queue handle
\* still NULL uxQueueMessagesWaiting panics
distance_sensor_has_new_measurement_call(c) ==
    /\ cons_pc[c] = "idle"
    /\ IF queues_created
       THEN /\ has_new_ret' = [has_new_ret EXCEPT ![c] =
                                  IF distance_sensor_has_new_measurement THEN 1 ELSE 0]
            /\ UNCHANGED cons_pc
       ELSE /\ cons_pc' = [cons_pc EXCEPT ![c] = "panic"]
            /\ UNCHANGED has_new_ret
    /\ UNCHANGED <<sensor_config, sensor_task_handle, raw_measurement_queue,
                   processed_measurement_queue, queue_overflow_counter,
                   previous_smoothed_value_mm, smoothing_initialized,
                   echo_start_time, measurement_in_progress, now,
                   task_pc, speed_of_sound_scaled, echo_duration_us, processed,
                   last_delivered, cycles, echoes, enq_in_cycle, n_evicted>>
    /\ UNCHANGED <<hist, live_tasks, start_pc, life_ret, queues_created, pinVars, displayVars,
                   ledVars>>

(***************************************************************************)
(* display_logic_start and display_logic_task                              *)
(***************************************************************************)
\* results of config_get_current in display_logic_start
DisplayConfigResults == {"ESP_OK", "ESP_FAIL"}

\* display_logic_start: refuses a second start, needs the configuration and the
\* initialized LED controller, then creates the task, which starts at the top
\* of display_logic_task
display_logic_start ==
    /\ \E config \in DisplayConfigResults, created \in BOOLEAN :
         IF display_pc # "none"
         THEN /\ life_ret' = <<"display_logic_start", "ESP_ERR_INVALID_STATE">>
              /\ UNCHANGED displayVars
         ELSE IF config # "ESP_OK"
         THEN /\ life_ret' = <<"display_logic_start", config>>
              /\ UNCHANGED displayVars
         ELSE IF ~is_initialized
         THEN /\ life_ret' = <<"display_logic_start", "ESP_ERR_INVALID_STATE">>
              /\ UNCHANGED displayVars
         ELSE IF ~created
         THEN /\ life_ret' = <<"display_logic_start", "ESP_FAIL">>
              /\ UNCHANGED displayVars
         ELSE /\ life_ret' = <<"display_logic_start", "ESP_OK">>
              /\ display_pc' = "entry"
              /\ UNCHANGED zoneVars
    /\ UNCHANGED <<sensor_config, sensor_task_handle, raw_measurement_queue,
                   processed_measurement_queue, queue_overflow_counter,
                   previous_smoothed_value_mm, smoothing_initialized,
                   echo_start_time, measurement_in_progress, now,
                   task_pc, speed_of_sound_scaled, echo_duration_us, processed,
                   cons_pc, last_delivered, cycles, echoes, enq_in_cycle, n_evicted>>
    /\ UNCHANGED <<hist, live_tasks, start_pc, queues_created, has_new_ret, pinVars, ledVars>>

\* conversion of an int to uint8_t
ToUint8(x) == x % 256

\* uint8_t zone_size = (led_count / 10 > 4) ? led_count / 10 : 4
zone_size(n) == ToUint8(IF n \div 10 > 4 THEN n \div 10 ELSE 4)

\* uint8_t zone_center = led_count / 4
zone_center(n) == ToUint8(n \div 4)

\* calculate_ideal_zone(led_count, &zone_start, &zone_end): the two results,
\* each computed in int and stored into a uint8_t
calculate_ideal_zone(n) ==
    LET start == ToUint8(zone_center(n) - (zone_size(n) \div 2))
    IN  [zone_start |-> start, zone_end |-> ToUint8(start + zone_size(n) - 1)]

\* the measurement task is running: it is between the return of its
\* xQueueReceive on the raw queue and its vTaskDelay, or inside the busy-wait
\* of the trigger pulse. Both tasks are pinned to core 1, the measurement task
\* with priority 5 and the display task with priority 3, so the display task
\* executes nothing while the measurement task runs.
MeasurementTaskRuns == task_pc \in {"pulse", "send", "evict", "resend", "count"}

\* display_logic_task before its loop: the ideal zone of the current LED count
display_logic_task_entry ==
    /\ display_pc = "entry"
    /\ ~MeasurementTaskRuns
    /\ ideal_zone_start' = calculate_ideal_zone(led_get_count).zone_start
    /\ ideal_zone_end' = calculate_ideal_zone(led_get_count).zone_end
    /\ display_pc' = "poll"
    /\ UNCHANGED cached_led_count
    /\ UNCHANGED <<sensor_config, sensor_task_handle, raw_measurement_queue,
                   processed_measurement_queue, queue_overflow_counter,
                   previous_smoothed_value_mm, smoothing_initialized,
                   echo_start_time, measurement_in_progress, now,
                   task_pc, speed_of_sound_scaled, echo_duration_us, processed,
                   cons_pc, last_delivered, cycles, echoes, enq_in_cycle, n_evicted>>
    /\ UNCHANGED <<hist, live_tasks, start_pc, life_ret, queues_created, has_new_ret,
                   pinVars, ledVars>>

\* the loop head calling distance_sensor_get_latest whatever the queue holds
display_logic_task_poll_unconditional ==
    /\ display_pc = "poll"
    /\ ~MeasurementTaskRuns
    /\ display_pc' = "receive"
    /\ UNCHANGED zoneVars
    /\ UNCHANGED <<sensor_config, sensor_task_handle, raw_measurement_queue,
                   processed_measurement_queue, queue_overflow_counter,
                   previous_smoothed_value_mm, smoothing_initialized,
                   echo_start_time, measurement_in_progress, now,
                   task_pc, speed_of_sound_scaled, echo_duration_us, processed,
                   cons_pc, last_delivered, cycles, echoes, enq_in_cycle, n_evicted>>
    /\ UNCHANGED <<hist, live_tasks, start_pc, life_ret, queues_created, has_new_ret,
                   pinVars, ledVars>>

\* loop head: if (distance_sensor_has_new_measurement()) ... else go on to the
\* animation update
display_logic_task_poll ==
    /\ display_pc = "poll"
    /\ ~MeasurementTaskRuns
    /\ display_pc' = IF distance_sensor_has_new_measurement THEN "receive" ELSE "render"
    /\ UNCHANGED zoneVars
    /\ UNCHANGED <<sensor_config, sensor_task_handle, raw_measurement_queue,
                   processed_measurement_queue, queue_overflow_counter,
                   previous_smoothed_value_mm, smoothing_initialized,
                   echo_start_time, measurement_in_progress, now,
                   task_pc, speed_of_sound_scaled, echo_duration_us, processed,
                   cons_pc, last_delivered, cycles, echoes, enq_in_cycle, n_evicted>>
    /\ UNCHANGED <<hist, live_tasks, start_pc, life_ret, queues_created, has_new_ret,
                   pinVars, ledVars>>

\* distance_sensor_get_latest(&measurement): the xQueueReceive with
\* portMAX_DELAY returns once the processed queue holds a reading, with its
\* head; update_led_display then works on the display state alone. For a
\* reading with status OK inside the configured distance range (in_range: the
\* configuration was read and the distance lies between its limits)
\* determine_display_mode recalculates the ideal zone when the LED count is
\* not the cached one.
display_logic_task_get_latest ==
    /\ display_pc = "receive"
    /\ ~MeasurementTaskRuns
    /\ Len(processed_measurement_queue) > 0
    /\ last_delivered' = Head(processed_measurement_queue)
    /\ processed_measurement_queue' = Tail(processed_measurement_queue)
    /\ display_pc' = "render"
    /\ \E in_range \in BOOLEAN :
         IF /\ Head(processed_measurement_queue).status = "DISTANCE_SENSOR_OK"
            /\ in_range
            /\ cached_led_count # led_get_count
         THEN /\ ideal_zone_start' = calculate_ideal_zone(led_get_count).zone_start
              /\ ideal_zone_end' = calculate_ideal_zone(led_get_count).zone_end
              /\ cached_led_count' = led_get_count
         ELSE UNCHANGED zoneVars
    /\ UNCHANGED <<sensor_config, sensor_task_handle, raw_measurement_queue,
                   queue_overflow_counter,
                   previous_smoothed_value_mm, smoothing_initialized,
                   echo_start_time, measurement_in_progress, now,
                   task_pc, speed_of_sound_scaled, echo_duration_us, processed,
                   cons_pc, cycles, echoes, enq_in_cycle, n_evicted>>
    /\ UNCHANGED <<hist, live_tasks, start_pc, life_ret, queues_created, has_new_ret,
                   pinVars, ledVars>>

\* update_animation_state(), render_display_state() and the vTaskDelay of 50 ms,
\* as far as the sensor is concerned: none of them touches it. The LED calls
\* render_display_state makes are the render task's steps of the LED
\* specifications.
display_logic_task_render ==
    /\ display_pc = "render"
    /\ ~MeasurementTaskRuns
    /\ display_pc' = "poll"
    /\ UNCHANGED zoneVars
    /\ UNCHANGED <<sensor_config, sensor_task_handle, raw_measurement_queue,
                   processed_measurement_queue, queue_overflow_counter,
                   previous_smoothed_value_mm, smoothing_initialized,
                   echo_start_time, measurement_in_progress, now,
                   task_pc, speed_of_sound_scaled, echo_duration_us, processed,
                   cons_pc, last_delivered, cycles, echoes, enq_in_cycle, n_evicted>>
    /\ UNCHANGED <<hist, live_tasks, start_pc, life_ret, queues_created, has_new_ret,
                   pinVars, ledVars>>

(***************************************************************************)
(* distance_sensor_init                                                    *)
(***************************************************************************)
\* results of the configuration reads and gpio_config calls of
\* distance_sensor_init (lines 433-517): all succeeded, or one failed
InitConfigResults == {"ESP_OK", "ESP_FAIL"}

\* distance_sensor_init up to and including gpio_isr_handler_add, with the
\* default values of the configuration store. The filter state is reset before
\* the GPIO calls. gpio_install_isr_service refuses a second installation, so
\* a call after one that got this far returns ESP_ERR_INVALID_STATE.
distance_sensor_init_add_handler ==
    /\ init_pc = "idle"
    /\ \E result \in InitConfigResults :
         IF result # "ESP_OK"
         THEN /\ life_ret' = <<"distance_sensor_init", result>>
              /\ UNCHANGED <<sensor_config, previous_smoothed_value_mm,
                             smoothing_initialized, init_pc, isr_handler_added>>
         ELSE /\ sensor_config' = [timeout_ms |-> DefaultTimeoutMs,
                                   temperature_c_x10 |-> DefaultTemperature,
                                   smoothing_factor |-> DefaultSmoothingFactor]
              /\ previous_smoothed_value_mm' = 0
              /\ smoothing_initialized' = FALSE
              /\ IF isr_handler_added
                 THEN /\ life_ret' = <<"distance_sensor_init", "ESP_ERR_INVALID_STATE">>
                      /\ UNCHANGED <<init_pc, isr_handler_added>>
                 ELSE /\ isr_handler_added' = TRUE
                      /\ init_pc' = "create_raw"
                      /\ UNCHANGED life_ret
    /\ UNCHANGED <<sensor_task_handle, raw_measurement_queue,
                   processed_measurement_queue, queue_overflow_counter,
                   echo_start_time, measurement_in_progress, now,
                   task_pc, speed_of_sound_scaled, echo_duration_us, processed,
                   cons_pc, last_delivered, cycles, echoes, enq_in_cycle, n_evicted>>
    /\ UNCHANGED <<hist, live_tasks, start_pc, queues_created, has_new_ret, displayVars,
                   trigger_level, raw_at_trigger, raw_queue_handle, isr_fault, ledVars>>

\* raw_measurement_queue = xQueueCreate(...); return ESP_ERR_NO_MEM if NULL
distance_sensor_init_create_raw ==
    /\ init_pc = "create_raw"
    /\ \E created \in BOOLEAN :
         IF created
         THEN /\ raw_queue_handle' = "valid"
              /\ init_pc' = "create_processed"
              /\ UNCHANGED life_ret
         ELSE /\ raw_queue_handle' = "NULL"
              /\ init_pc' = "idle"
              /\ life_ret' = <<"distance_sensor_init", "ESP_ERR_NO_MEM">>
    /\ UNCHANGED <<sensor_config, sensor_task_handle, raw_measurement_queue,
                   processed_measurement_queue, queue_overflow_counter,
                   previous_smoothed_value_mm, smoothing_initialized,
                   echo_start_time, measurement_in_progress, now,
                   task_pc, speed_of_sound_scaled, echo_duration_us, processed,
                   cons_pc, last_delivered, cycles, echoes, enq_in_cycle, n_evicted>>
    /\ UNCHANGED <<hist, live_tasks, start_pc, queues_created, has_new_ret, displayVars,
                   trigger_level, raw_at_trigger, isr_handler_added, isr_fault, ledVars>>

\* processed_measurement_queue = xQueueCreate(...); on NULL the raw queue is
\* deleted (its handle and the ISR handler stay) and ESP_ERR_NO_MEM returned;
\* otherwise the trigger pin is set low and ESP_OK returned
distance_sensor_init_create_processed ==
    /\ init_pc = "create_processed"
    /\ init_pc' = "idle"
    /\ \E created \in BOOLEAN :
         IF created
         THEN /\ queues_created' = TRUE
              /\ trigger_level' = 0
              /\ life_ret' = <<"distance_sensor_init", "ESP_OK">>
              /\ UNCHANGED <<raw_queue_handle, raw_measurement_queue>>
         ELSE /\ raw_queue_handle' = "deleted"
              /\ raw_measurement_queue' = <<>>
              /\ life_ret' = <<"distance_sensor_init", "ESP_ERR_NO_MEM">>
              /\ UNCHANGED <<queues_created, trigger_level>>
    /\ UNCHANGED <<sensor_config, sensor_task_handle,
                   processed_measurement_queue, queue_overflow_counter,
                   previous_smoothed_value_mm, smoothing_initialized,
                   echo_start_time, measurement_in_progress, now,
                   task_pc, speed_of_sound_scaled, echo_duration_us, processed,
                   cons_pc, last_delivered, cycles, echoes, enq_in_cycle, n_evicted>>
    /\ UNCHANGED <<hist, live_tasks, start_pc, has_new_ret, displayVars,
                   raw_at_trigger, isr_handler_added, isr_fault, ledVars>>

\* the statics of distance_sensor.c as the program image holds them, the task
\* and its callers not yet running
SensorStatics ==
    /\ sensor_task_handle = "NULL"
    /\ raw_measurement_queue = <<>>
    /\ processed_measurement_queue = <<>>
    /\ queue_overflow_counter = 0
    /\ previous_smoothed_value_mm = 0
    /\ smoothing_initialized = FALSE
    /\ echo_start_time = 0
    /\ measurement_in_progress = FALSE
    /\ now = 0
    /\ task_pc = "none"
    /\ speed_of_sound_scaled = 0
    /\ echo_duration_us = 0
    /\ processed = NoReading
    /\ cons_pc = [c \in Consumers |-> "idle"]
    /\ last_delivered = NoReading
    /\ cycles = 0
    /\ echoes = 0
    /\ enq_in_cycle = 0
    /\ n_evicted = 0
    /\ hist = <<>>
    /\ live_tasks = 0
    /\ start_pc = [s \in Starters |-> "idle"]
    /\ life_ret = <<"none", "none">>
    /\ has_new_ret = [c \in Consumers |-> -1]
    /\ trigger_level = 0
    /\ raw_at_trigger = 0
    /\ init_pc = "idle"
    /\ isr_fault = "none"
    /\ display_pc = "none"
    /\ ideal_zone_start = 0
    /\ ideal_zone_end = 0
    /\ cached_led_count = 0

\* the sensor after distance_sensor_init has returned ESP_OK with the given
\* "temp_c_x10" and "smooth_factor" values of the configuration store
SensorInit(temperatures, factors) ==
    /\ sensor_config \in [timeout_ms : {DefaultTimeoutMs},
                          temperature_c_x10 : temperatures,
                          smoothing_factor : factors]
    /\ queues_created = TRUE
    /\ isr_handler_added = TRUE
    /\ raw_queue_handle = "valid"
    /\ SensorStatics

(***************************************************************************)
(* Specifications                                                          *)
(***************************************************************************)
\* the LED controller alone
\* both components initialized, default configuration
Init == LedInit /\ SensorInit({DefaultTemperature}, {DefaultSmoothingFactor})

SpecLed == Init /\ [][LedNext]_vars

\* max_count values of the reader specification
ReaderCounts == {0, 1}

\* the readers against a render task that writes the first pixel and shows it
ReaderNext ==
    \/ led_controller_init
    \/ \E color \in Colors : led_set_pixel(0, color)
    \/ led_show_transmit
    \/ led_show_wait_done
    \/ led_show_take
    \/ led_show_take_timeout
    \/ led_show_copy
    \/ \E r \in Readers, has_output \in BOOLEAN, max_count \in ReaderCounts :
          led_get_all_colors_call(r, has_output, max_count)
    \/ \E r \in Readers : led_get_all_colors_take(r)
    \/ \E r \in Readers : led_get_all_colors_timeout(r)
    \/ \E r \in Readers : led_get_all_colors_copy(r)

\* the readers with bounded waits that end: a reader inside
\* xSemaphoreTake(snapshot_mutex, pdMS_TO_TICKS(100)) gets the mutex or its
\* timeout
SpecReaders ==
    /\ Init
    /\ [][ReaderNext]_vars
    /\ \A r \in Readers :
          WF_vars(led_get_all_colors_take(r) \/ led_get_all_colors_timeout(r))

\* the render task scheduled fairly, the readers not: each wait inside led_show
\* is bounded (rmt_tx_wait_all_done 100 ms, xSemaphoreTake 10 ms) and its
\* memcpy is finite, while a reader may stay pre-empted inside its critical
\* section for any time
SpecShowLive ==
    /\ Init
    /\ [][ReaderNext]_vars
    /\ WF_vars(led_show_wait_done)
    /\ WF_vars(led_show_take \/ led_show_take_timeout)
    /\ WF_vars(led_show_copy)

\* the readers against a render task that also shuts the controller down
DeinitNext ==
    \/ led_controller_init
    \/ led_controller_deinit
    \/ \E color \in Colors : led_set_pixel(0, color)
    \/ led_show_transmit
    \/ led_show_wait_done
    \/ led_show_take
    \/ led_show_take_timeout
    \/ led_show_copy
    \/ \E r \in Readers, max_count \in ReaderCounts :
          led_get_all_colors_call(r, TRUE, max_count)
    \/ \E r \in Readers : led_get_all_colors_take(r)
    \/ \E r \in Readers : led_get_all_colors_timeout(r)
    \/ \E r \in Readers : led_get_all_colors_copy(r)
    \/ \E r \in Readers : led_get_all_colors_after_deinit(r)

SpecDeinit == Init /\ [][DeinitNext]_vars

\* echo pulse widths (microseconds) of the queue specification:
\* 2912 us = 500 mm (in range), 29119 us = 5000 mm (out of range)
QueueDurations == {2912, 29119}

\* the measurement pipeline: ISR, task, processed queue and consumers
SensorNext ==
    \/ \E level \in {0, 1}, elapsed \in QueueDurations :
          echo_isr_handler(level, elapsed, MaxEchoes)
    \/ distance_sensor_start
    \/ task_trigger(MaxCycles)
    \/ task_receive_raw(FALSE)
    \/ task_receive_timeout
    \/ task_send
    \/ task_evict
    \/ task_resend
    \/ task_count
    \/ \E c \in Consumers : distance_sensor_get_latest_call(c)
    \/ \E c \in Consumers : distance_sensor_get_latest_return(c)

SpecSensor == Init /\ [][SensorNext]_vars

\* steps of the measurement task
TaskStep ==
    \/ task_trigger(MaxCycles)
    \/ task_receive_raw(FALSE)
    \/ task_receive_timeout
    \/ task_send
    \/ task_evict
    \/ task_resend
    \/ task_count

\* the sensor under fair scheduling: a task that can run does run, and a
\* consumer whose xQueueReceive can return does return
SpecSensorLive ==
    /\ SpecSensor
    /\ WF_vars(TaskStep)
    /\ \A c \in Consumers : WF_vars(distance_sensor_get_latest_return(c))

\* cycles and echo pulses of the filter specification; the readings stay in the
\* processed queue (no consumer), and with at most five cycles the queue never
\* fills, so the overflow path is not part of it
MaxFilterCycles == 3

MaxFilterEchoes == 3

\* echo pulse widths (microseconds) of the filter specification, at 20.0 C:
\* 58 us = 9 mm, 2912 us = 500 mm, 3029 us = 520 mm, 29119 us = 5000 mm,
\* 384600 us = 66039 mm
FilterDurations == {58, 2912, 3029, 29119, 384600}

\* "smooth_factor" values of the filter specification
FilterFactors == {300, 1000}

FilterNext ==
    \/ \E level \in {0, 1}, elapsed \in FilterDurations :
          echo_isr_handler(level, elapsed, MaxFilterEchoes)
    \/ distance_sensor_start
    \/ task_trigger(MaxFilterCycles)
    \/ task_receive_raw(TRUE)
    \/ task_receive_timeout
    \/ task_send

FilterInit == LedInit /\ SensorInit({DefaultTemperature}, FilterFactors)

SpecFilter == FilterInit /\ [][FilterNext]_vars

\* echo pulse widths (microseconds) of the smoothing specification, at 20.0 C:
\* 117 us = 20 mm and 23296 us = 4000 mm (the ends of the valid range),
\* 2912 us = 500 mm, 29119 us = 5000 mm (out of range)
EmaDurations == {117, 2912, 23296, 29119}

\* "smooth_factor" values of the smoothing specification: the ends of [0, 1000],
\* their neighbours and the default
EmaFactors == {0, 1, DefaultSmoothingFactor, 999, 1000}

EmaNext ==
    \/ \E level \in {0, 1}, elapsed \in EmaDurations :
          echo_isr_handler(level, elapsed, MaxFilterEchoes)
    \/ distance_sensor_start
    \/ task_trigger(MaxFilterCycles)
    \/ task_receive_raw(TRUE)
    \/ task_receive_timeout
    \/ task_send

EmaInit == LedInit /\ SensorInit({DefaultTemperature}, EmaFactors)

\* the measurement pipeline over the whole range of smoothing factors
SpecEma == EmaInit /\ [][EmaNext]_vars

\* echo pulse widths (microseconds) of the sample specification, at 20.0 C:
\* 4660 us = 800 mm, 4776 us = 820 mm, 4718 us = 810 mm; 1000 us and 5800 us let
\* a pulse start at 1000 and end at 6800
SampleDurations == {1000, 4660, 4718, 4776, 5800}

SampleNext ==
    \/ \E level \in {0, 1}, elapsed \in SampleDurations :
          echo_isr_handler(level, elapsed, MaxFilterEchoes)
    \/ distance_sensor_start
    \/ task_trigger(MaxFilterCycles)
    \/ task_receive_raw(TRUE)
    \/ task_receive_timeout
    \/ task_send

\* the measurement pipeline with the default configuration and given samples
SpecSamples == Init /\ [][SampleNext]_vars

\* echo pulses of the lifecycle specification
MaxLifecycleEchoes == 1

\* echo pulse width (microseconds) of the lifecycle specification: 500 mm
LifecycleDurations == {2912}

\* start, stop and the measurement task; no consumer takes readings
LifecycleNext ==
    \/ \E level \in {0, 1}, elapsed \in LifecycleDurations :
          echo_isr_handler(level, elapsed, MaxLifecycleEchoes)
    \/ \E s \in Starters : distance_sensor_start_check(s)
    \/ \E s \in Starters : distance_sensor_start_create(s, MaxTasks)
    \/ distance_sensor_stop
    \/ task_trigger(MaxCycles)
    \/ task_receive_raw(FALSE)
    \/ task_receive_timeout
    \/ task_send
    \/ task_evict
    \/ task_resend
    \/ task_count

SpecLifecycle == Init /\ [][LifecycleNext]_vars

\* colours the render task writes in the strip specification: off, and one
\* whose three channel bytes differ and are no bit palindromes
StripColors == {LED_COLOR_OFF, led_color_rgb(128, 1, 6)}

\* the render task alone (no led_get_all_colors reader, so the 10 ms take of
\* led_show never times out): init, deinit, buffer writes, led_show, and the
\* time the line stays low between two frames
StripNext ==
    \/ led_controller_init
    \/ led_controller_deinit
    \/ \E index \in 0..(NumLeds + 1), color \in StripColors : led_set_pixel(index, color)
    \/ \E index \in 0..(NumLeds + 1) : led_clear_pixel(index)
    \/ led_clear_all
    \/ led_show_transmit
    \/ led_show_wait_done
    \/ led_show_take
    \/ led_show_copy
    \/ reset_interval_elapses

SpecStrip == Init /\ [][StripNext]_vars

\* measurement cycles of the boot specification
MaxBootCycles == 2

\* the statics at boot: sensor_config zeroed, no queue created
BootInit ==
    /\ LedInit
    /\ sensor_config = [timeout_ms |-> 0, temperature_c_x10 |-> 0, smoothing_factor |-> 0]
    /\ queues_created = FALSE
    /\ isr_handler_added = FALSE
    /\ raw_queue_handle = "NULL"
    /\ SensorStatics

\* the sensor API from boot on: distance_sensor_init is one of the calls, and
\* start, get_latest and has_new_measurement may come before it. The echo ISR
\* is installed by distance_sensor_init.
BootNext ==
    \/ distance_sensor_init_add_handler
    \/ distance_sensor_init_create_raw
    \/ distance_sensor_init_create_processed
    \/ distance_sensor_start
    \/ task_trigger(MaxBootCycles)
    \/ task_receive_null_queue
    \/ task_receive_raw(FALSE)
    \/ task_receive_timeout
    \/ task_send
    \/ \E level \in {0, 1}, elapsed \in LifecycleDurations :
          echo_isr_handler(level, elapsed, MaxLifecycleEchoes)
    \/ \E level \in {0, 1} : echo_isr_handler_no_queue(level)
    \/ \E c \in Consumers : distance_sensor_get_latest_call(c)
    \/ \E c \in Consumers : distance_sensor_get_latest_return(c)
    \/ \E c \in Consumers : distance_sensor_has_new_measurement_call(c)

SpecBoot == BootInit /\ [][BootNext]_vars

\* measurement cycles and echo pulses of the timeout specification
MaxTimeoutCycles == 4

MaxTimeoutEchoes == 2

\* echo pulse widths (microseconds) of the timeout specification, at 20.0 C:
\* 2912 us = 500 mm, 3029 us = 520 mm
TimeoutDurations == {2912, 3029}

\* the measurement pipeline with cycles that get no echo between cycles that do
TimeoutNext ==
    \/ \E level \in {0, 1}, elapsed \in TimeoutDurations :
          echo_isr_handler(level, elapsed, MaxTimeoutEchoes)
    \/ distance_sensor_start
    \/ task_trigger(MaxTimeoutCycles)
    \/ task_receive_raw(TRUE)
    \/ task_receive_timeout
    \/ task_send

SpecTimeouts == Init /\ [][TimeoutNext]_vars

\* the LED controller after led_controller_init has returned ESP_OK for a strip
\* of n LEDs on a heap that held zeroes
LedReadyCount(n) ==
    /\ is_initialized = TRUE
    /\ led_count = n
    /\ led_buffer = [k \in 1..n |-> LED_COLOR_OFF]
    /\ led_buffer_snapshot = [k \in 1..n |-> LED_COLOR_OFF]
    /\ snapshot_mutex = MutexFree
    /\ show_pc = "idle"
    /\ show_i = 0
    /\ last_ret = <<"led_controller_init", "ESP_OK">>
    /\ tx_status = "none"
    /\ data_buffer = <<>>
    /\ rd_pc = [r \in Readers |-> "idle"]
    /\ rd_i = [r \in Readers |-> 0]
    /\ rd_count = [r \in Readers |-> 0]
    /\ rd_out = [r \in Readers |-> <<>>]
    /\ rd_ret = [r \in Readers |-> -1]
    /\ last_ok_frame = <<>>
    /\ snap_at_call = <<>>
    /\ last_published = [k \in 1..n |-> LED_COLOR_OFF]
    /\ rd_frames = [r \in Readers |-> {}]
    /\ rmt_busy = FALSE
    /\ line_low = "reset"

LedReady == LedReadyCount(NumLeds)

\* both components initialized as app_main leaves them before it starts the
\* sensor and the display
DisplayInit == LedReady /\ SensorInit({DefaultTemperature}, {DefaultSmoothingFactor})

\* the measurement task with its overflow path and the display task as the
\* only consumer of the processed queue
DisplayNext ==
    \/ \E level \in {0, 1}, elapsed \in LifecycleDurations :
          echo_isr_handler(level, elapsed, MaxLifecycleEchoes)
    \/ distance_sensor_start
    \/ task_trigger(MaxCycles)
    \/ task_receive_raw(FALSE)
    \/ task_receive_timeout
    \/ task_send
    \/ task_evict
    \/ task_resend
    \/ task_count
    \/ display_logic_start
    \/ display_logic_task_entry
    \/ display_logic_task_poll
    \/ display_logic_task_get_latest
    \/ display_logic_task_render

\* the two tasks under the scheduler of core 1: the measurement task, once
\* running, runs on to its next blocking call, and the display task gets the
\* core again and again while the measurement task is blocked. Nothing makes
\* the measurement task leave a blocking call, so no reading need ever be
\* produced.
SpecDisplay ==
    /\ DisplayInit
    /\ [][DisplayNext]_vars
    /\ WF_vars(task_send \/ task_evict \/ task_resend \/ task_count)
    /\ SF_vars(display_logic_task_entry)
    /\ SF_vars(display_logic_task_poll)
    /\ SF_vars(display_logic_task_get_latest)
    /\ SF_vars(display_logic_task_render)

\* measurement cycles of the trigger-pulse specification
MaxPulseCycles == 2

\* the initialized sensor with the trigger pulse taken step by step, so that
\* distance_sensor_stop, called from a task on the other core or from one that
\* pre-empts the measurement task, can fall between the two gpio_set_level calls
PulseNext ==
    \/ \E level \in {0, 1}, elapsed \in LifecycleDurations :
          echo_isr_handler(level, elapsed, MaxLifecycleEchoes)
    \/ distance_sensor_start
    \/ distance_sensor_stop
    \/ task_trigger_high(MaxPulseCycles)
    \/ task_trigger_low
    \/ task_receive_raw(FALSE)
    \/ task_receive_timeout
    \/ task_send

SpecPulse == Init /\ [][PulseNext]_vars

\* the initialized sensor with its whole API in use: start, stop, the
\* measurement task with the overflow path, and a consumer that polls
\* has_new_measurement and takes readings with get_latest
ApiNext ==
    \/ \E level \in {0, 1}, elapsed \in LifecycleDurations :
          echo_isr_handler(level, elapsed, MaxLifecycleEchoes)
    \/ distance_sensor_start
    \/ distance_sensor_stop
    \/ task_trigger(MaxCycles)
    \/ task_receive_raw(FALSE)
    \/ task_receive_timeout
    \/ task_send
    \/ task_evict
    \/ task_resend
    \/ task_count
    \/ \E c \in Consumers : distance_sensor_get_latest_call(c)
    \/ \E c \in Consumers : distance_sensor_get_latest_return(c)
    \/ \E c \in Consumers : distance_sensor_has_new_measurement_call(c)

SpecApi == Init /\ [][ApiNext]_vars

(***************************************************************************)
(* LED controller: snapshot properties                                     *)
(***************************************************************************)
\* C1: when led_show has returned ESP_OK (and the render task has not touched
\* the working buffer since), the snapshot equals the working buffer that was
\* transmitted, also while led_get_all_colors readers are active.
\* Fails under SpecLed: a reader holding snapshot_mutex through the 10 ms take
\* makes led_show skip the memcpy and still return ESP_OK.
SnapshotIsLastTransmittedFrame ==
    (show_pc = "idle" /\ last_ret = <<"led_show", "ESP_OK">>)
        => led_buffer_snapshot = led_buffer

\* C2: a led_show whose transmission did not start (rmt_transmit failed) or was
\* not confirmed (rmt_tx_wait_all_done failed) returns that error, and the
\* snapshot is what it was when led_show was called.
FailedShowKeepsSnapshot ==
    (show_pc = "idle" /\ last_ret[1] = "led_show"
         /\ tx_status \in {"ESP_FAIL", "ESP_ERR_TIMEOUT"})
        => (last_ret[2] = tx_status /\ led_buffer_snapshot = snap_at_call)

\* led_show has returned ESP_ERR_TIMEOUT for a working buffer that differs from
\* the snapshot
FailedShowWitness ==
    /\ show_pc = "idle"
    /\ last_ret = <<"led_show", "ESP_ERR_TIMEOUT">>
    /\ led_buffer # led_buffer_snapshot

\* C3: the pixels a reader of led_get_all_colors has copied so far all come
\* from one single published frame: the snapshot as it was when the reader got
\* the mutex, or a frame published completely while the reader was copying.
ReaderSeesOneFrame ==
    \A r \in Readers :
        rd_pc[r] = "copy" =>
            \E f \in rd_frames[r] : \A k \in 1..rd_i[r] : rd_out[r][k] = f[k]

\* a reader has copied at least two pixels while led_show, with a transmitted
\* frame that differs from the snapshot, waits for the mutex
ReaderDuringShowWitness ==
    \E r \in Readers :
        /\ rd_pc[r] = "copy"
        /\ rd_i[r] >= 2
        /\ show_pc = "take"
        /\ led_buffer # led_buffer_snapshot

(***************************************************************************)
(* Distance sensor: processed queue properties                             *)
(***************************************************************************)
\* C4: at the end of every measurement cycle exactly one reading of the cycle
\* has been enqueued on the processed queue.
\* Fails under SpecSensor: in the echo branch, when the first xQueueSend finds
\* the queue full and the consumer empties it before the dummy xQueueReceive,
\* the reading is neither enqueued nor counted.
OneReadingPerCycle ==
    (task_pc = "trigger" /\ cycles > 0) => enq_in_cycle = 1

\* C5: as long as no consumer has taken a reading, after n cycles the queue
\* holds the Min(n, 5) most recent readings in production order and the
\* overflow counter is n - 5 (0 up to five cycles), whatever the statuses.
OverflowKeepsFiveMostRecent ==
    (task_pc = "trigger" /\ last_delivered = NoReading) =>
        /\ Len(processed_measurement_queue) = Min(cycles, PROCESSED_QUEUE_SIZE)
        /\ queue_overflow_counter =
               IF cycles > PROCESSED_QUEUE_SIZE THEN cycles - PROCESSED_QUEUE_SIZE ELSE 0
        /\ \A k \in 1..Len(processed_measurement_queue) :
               processed_measurement_queue[k].seq =
                   (cycles - Len(processed_measurement_queue)) + k

\* six cycles without a consumer: one overflow, and the queue holds readings of
\* all three statuses
OverflowWitness ==
    /\ task_pc = "trigger"
    /\ last_delivered = NoReading
    /\ cycles = PROCESSED_QUEUE_SIZE + 1
    /\ queue_overflow_counter = 1
    /\ \A st \in {"DISTANCE_SENSOR_OK", "DISTANCE_SENSOR_OUT_OF_RANGE",
                  "DISTANCE_SENSOR_TIMEOUT"} :
           \E k \in 1..Len(processed_measurement_queue) :
               processed_measurement_queue[k].status = st

\* C6: outside the evict-retry-count sequence, queue_overflow_counter equals
\* the number of readings the task has evicted from the processed queue.
\* Fails under SpecSensor: in the timeout branch, when the consumer empties the
\* queue between the failed xQueueSend and the dummy xQueueReceive, the counter
\* is incremented although nothing was evicted.
CounterEqualsEvictions ==
    task_pc \notin {"resend", "count"} => queue_overflow_counter = n_evicted

\* C7: every reading distance_sensor_get_latest returns was produced after the
\* reading returned before it.
DeliveredInProductionOrder ==
    [][last_delivered' # last_delivered => last_delivered'.seq > last_delivered.seq]_vars

\* a reading produced after an eviction has been delivered
DeliveryAfterEvictionWitness ==
    /\ n_evicted > 0
    /\ last_delivered.seq > PROCESSED_QUEUE_SIZE

\* C8: a call of distance_sensor_get_latest returns only when the processed
\* queue holds a reading, returns the oldest one and removes exactly that one;
\* while the task is running, every blocked call eventually returns (until the
\* task has run its last cycle and the queue is empty).
GetLatestBlocksAndReturnsOne ==
    /\ [][\A c \in Consumers :
             (cons_pc[c] = "blocked" /\ cons_pc'[c] = "idle") =>
                 /\ Len(processed_measurement_queue) > 0
                 /\ last_delivered' = Head(processed_measurement_queue)
                 /\ processed_measurement_queue' = Tail(processed_measurement_queue)]_vars
    /\ \A c \in Consumers :
          (cons_pc[c] = "blocked" /\ sensor_task_handle = "task")
              ~> (\/ cons_pc[c] = "idle"
                  \/ (/\ cycles = MaxCycles
                      /\ task_pc = "trigger"
                      /\ Len(processed_measurement_queue) = 0))

\* a consumer that got a reading from an earlier call is blocked on the empty
\* queue of the running task, which has cycles left
BlockedConsumerWitness ==
    \E c \in Consumers :
        /\ cons_pc[c] = "blocked"
        /\ Len(processed_measurement_queue) = 0
        /\ sensor_task_handle = "task"
        /\ last_delivered # NoReading
        /\ cycles < MaxCycles

(***************************************************************************)
(* Distance sensor: range check and EMA filter                             *)
(***************************************************************************)
\* the filter state before the k-th recorded echo reading
FilterStateBefore(k) ==
    IF k = 1
    THEN [previous |-> 0, initialized |-> FALSE]
    ELSE [previous |-> hist[k - 1].previous, initialized |-> hist[k - 1].initialized]

\* C9: a reading published as out of range leaves previous_smoothed_value_mm
\* and smoothing_initialized as they were and carries its unsmoothed value;
\* with factor 300, after 500 mm, 5000 mm (out of range), 520 mm the third
\* reading is 506 mm = 0.3 * 520 + 0.7 * 500.
OutOfRangeKeepsFilterState ==
    /\ \A k \in 1..Len(hist) :
          (hist[k].raw_mm < MinDistanceMm \/ hist[k].raw_mm > MaxDistanceMm) =>
              /\ hist[k].status = "DISTANCE_SENSOR_OUT_OF_RANGE"
              /\ hist[k].out_mm = hist[k].raw_mm
              /\ hist[k].previous = FilterStateBefore(k).previous
              /\ hist[k].initialized = FilterStateBefore(k).initialized
    /\ (/\ Len(hist) = 3
        /\ sensor_config.smoothing_factor = 300
        /\ hist[1].raw_mm = 500 /\ hist[2].raw_mm = 5000 /\ hist[3].raw_mm = 520) =>
              /\ hist[3].status = "DISTANCE_SENSOR_OK"
              /\ hist[3].out_mm = 506
              /\ hist[3].previous = 506

\* the readings 500 mm, 5000 mm, 520 mm have been processed with factor 300
FilterSequenceWitness ==
    /\ Len(hist) = 3
    /\ sensor_config.smoothing_factor = 300
    /\ hist[1].raw_mm = 500 /\ hist[2].raw_mm = 5000 /\ hist[3].raw_mm = 520
    /\ hist[2].status = "DISTANCE_SENSOR_OUT_OF_RANGE"

\* C10: a reading computed from an echo has status OK only if the computed
\* distance duration * speed / 2000000 lies in [20, 4000]; outside that range
\* it is out of range and carries the computed distance.
\* Fails under SpecFilter: the computed distance is cut to 16 bits before the
\* range check, so 384600 us (66039 mm) is checked and published as 503 mm, OK.
StatusOkOnlyInRange ==
    (task_pc = "send" /\ processed.status # "DISTANCE_SENSOR_TIMEOUT") =>
        LET computed_mm == DistanceScaled(echo_duration_us, speed_of_sound_scaled)
        IN  /\ processed.status = "DISTANCE_SENSOR_OK" =>
                (computed_mm >= MinDistanceMm /\ computed_mm <= MaxDistanceMm)
            /\ (computed_mm < MinDistanceMm \/ computed_mm > MaxDistanceMm) =>
                (/\ processed.status = "DISTANCE_SENSOR_OUT_OF_RANGE"
                 /\ processed.distance_mm = computed_mm)

\* C11: every blended output lies between the previous smoothed value and the
\* new valid sample, both ends included, for the factors 0, 1, 300, 999, 1000
\* and samples over the whole valid range.
EmaOutputBetweenInputs ==
    \A k \in 1..Len(hist) :
        (hist[k].status = "DISTANCE_SENSOR_OK" /\ FilterStateBefore(k).initialized) =>
            /\ hist[k].out_mm >= Min(FilterStateBefore(k).previous, hist[k].raw_mm)
            /\ hist[k].out_mm <= Max(FilterStateBefore(k).previous, hist[k].raw_mm)

\* factor 1, previous 20 mm, new 4000 mm: the output 23 mm is strictly inside
EmaBlendWitness ==
    \E k \in 1..Len(hist) :
        /\ sensor_config.smoothing_factor = 1
        /\ FilterStateBefore(k).initialized
        /\ FilterStateBefore(k).previous = 20
        /\ hist[k].raw_mm = 4000
        /\ hist[k].out_mm = 23

\* C12: the first valid sample is published as it is and becomes the filter
\* state; every later valid sample is blended with the previous smoothed value,
\* which the result replaces; the filter state is that of the last echo reading
\* (timeouts do not touch it) and the initialized flag is never cleared.
FirstSampleSeedsFilter ==
    /\ [](/\ \A k \in 1..Len(hist) :
               hist[k].status = "DISTANCE_SENSOR_OK" =>
                   /\ hist[k].initialized
                   /\ hist[k].previous = hist[k].out_mm
                   /\ hist[k].out_mm =
                         IF FilterStateBefore(k).initialized
                         THEN EmaBlend(sensor_config.smoothing_factor, hist[k].raw_mm,
                                       FilterStateBefore(k).previous)
                         ELSE hist[k].raw_mm
          /\ previous_smoothed_value_mm = FilterStateBefore(Len(hist) + 1).previous
          /\ smoothing_initialized = FilterStateBefore(Len(hist) + 1).initialized)
    /\ [][smoothing_initialized => smoothing_initialized']_vars

\* after an out-of-range reading, a first valid sample of 20 mm went through
\* unchanged and the next one, 4000 mm, was blended to 1214 mm (factor 300)
FirstSampleWitness ==
    /\ Len(hist) = 3
    /\ sensor_config.smoothing_factor = DefaultSmoothingFactor
    /\ hist[1].status = "DISTANCE_SENSOR_OUT_OF_RANGE"
    /\ hist[2].raw_mm = 20 /\ hist[2].out_mm = 20
    /\ hist[3].raw_mm = 4000 /\ hist[3].out_mm = 1214

\* C13: with factor 300, the raw samples 800, 820, 810 mm of three consecutive
\* cycles are published, in that order, as 800, 806, 807 mm with status OK.
ThreeSamplesSmoothed ==
    (/\ cycles = 3
     /\ Len(hist) = 3
     /\ hist[1].raw_mm = 800 /\ hist[2].raw_mm = 820 /\ hist[3].raw_mm = 810
     /\ task_pc = "trigger") =>
        /\ Len(processed_measurement_queue) = 3
        /\ \A k \in 1..3 :
              /\ processed_measurement_queue[k].distance_mm = <<800, 806, 807>>[k]
              /\ processed_measurement_queue[k].status = "DISTANCE_SENSOR_OK"
              /\ processed_measurement_queue[k].seq = k

\* the three samples have been processed in the first three cycles
ThreeSamplesWitness ==
    /\ cycles = 3
    /\ Len(hist) = 3
    /\ hist[1].raw_mm = 800 /\ hist[2].raw_mm = 820 /\ hist[3].raw_mm = 810
    /\ task_pc = "trigger"
    /\ Len(processed_measurement_queue) = 3

\* C14 (as the code computes it): an echo from 1000 us to 6800 us at 20.0 C
\* gives the raw distance 995 mm = 5800 * 343420 / 2000000 (995.918) truncated.
RawDistanceOf5800us ==
    (/\ task_pc = "send"
     /\ processed.status # "DISTANCE_SENSOR_TIMEOUT"
     /\ processed.timestamp_us = 6800
     /\ echo_duration_us = 5800
     /\ sensor_config.temperature_c_x10 = 200) =>
        hist[Len(hist)].raw_mm = 995

\* the sample {1000, 6800} has been dequeued and its distance computed
RawDistanceWitness ==
    /\ task_pc = "send"
    /\ processed.status = "DISTANCE_SENSOR_OK"
    /\ processed.timestamp_us = 6800
    /\ echo_duration_us = 5800
    /\ sensor_config.temperature_c_x10 = 200
    /\ speed_of_sound_scaled = 343420

\* C14 (as stated): the raw distance of that echo is 993 mm up to the
\* truncation of one integer division (within 1 mm).
\* Fails under SpecSamples: the code computes 995 mm.
RawDistanceIs993 ==
    (/\ task_pc = "send"
     /\ processed.status # "DISTANCE_SENSOR_TIMEOUT"
     /\ processed.timestamp_us = 6800
     /\ echo_duration_us = 5800
     /\ sensor_config.temperature_c_x10 = 200) =>
        (hist[Len(hist)].raw_mm >= 992 /\ hist[Len(hist)].raw_mm <= 994)

(***************************************************************************)
(* Distance sensor: timeout, echo ISR, queue capacities                    *)
(***************************************************************************)
\* C15: when the wait on the raw queue ends with the queue empty, the task goes
\* on to publish a reading with status TIMEOUT and distance 0 in the same cycle;
\* every cycle ends with a reading (no second trigger within it), a timeout
\* reading is always enqueued, and every timeout reading in the queue or
\* delivered to a consumer has distance 0.
TimeoutIsPublished ==
    /\ [](/\ (task_pc = "trigger" /\ cycles > 0) => processed # NoReading
          /\ (task_pc = "trigger" /\ processed.status = "DISTANCE_SENSOR_TIMEOUT")
                => enq_in_cycle = 1
          /\ \A k \in 1..Len(processed_measurement_queue) :
                processed_measurement_queue[k].status = "DISTANCE_SENSOR_TIMEOUT"
                    => processed_measurement_queue[k].distance_mm = 0
          /\ last_delivered.status = "DISTANCE_SENSOR_TIMEOUT"
                => last_delivered.distance_mm = 0)
    /\ [][(task_pc = "await" /\ task_pc' # "await" /\ Len(raw_measurement_queue) = 0) =>
             /\ task_pc' = "send"
             /\ cycles' = cycles
             /\ processed'.status = "DISTANCE_SENSOR_TIMEOUT"
             /\ processed'.distance_mm = 0
             /\ processed'.seq = cycles]_vars

\* a consumer has received the timeout reading of a cycle that found the queue
\* full
TimeoutDeliveredWitness ==
    /\ last_delivered.status = "DISTANCE_SENSOR_TIMEOUT"
    /\ last_delivered.distance_mm = 0
    /\ last_delivered.seq > PROCESSED_QUEUE_SIZE

\* C16: a step that sets the in-progress flag (rising edge) stores the current
\* time as start and leaves the raw queue and the clock alone; the raw queue
\* grows only by one sample {start, now, OK}, only while a timing is in
\* progress, and that step clears the flag; a falling edge with a timing in
\* progress and the queue full clears the flag and enqueues nothing.
EchoIsrOneSamplePerPulse ==
    [][/\ (measurement_in_progress' /\
              (~measurement_in_progress \/ echo_start_time' # echo_start_time)) =>
             (/\ echo_start_time' = now
              /\ raw_measurement_queue' = raw_measurement_queue)
       /\ Len(raw_measurement_queue') > Len(raw_measurement_queue) =>
             (/\ measurement_in_progress
              /\ ~measurement_in_progress'
              /\ raw_measurement_queue' =
                    Append(raw_measurement_queue, RawMeasurement(echo_start_time, now')))
       /\ (measurement_in_progress /\ ~measurement_in_progress') =>
             (/\ echo_start_time' = echo_start_time
              /\ raw_measurement_queue' =
                    IF Len(raw_measurement_queue) < RAW_QUEUE_SIZE
                    THEN Append(raw_measurement_queue, RawMeasurement(echo_start_time, now'))
                    ELSE raw_measurement_queue)]_vars

\* three pulses have been timed before the task took any sample: two samples are
\* in the raw queue, the third was dropped
EchoDroppedWitness ==
    /\ echoes = 3
    /\ Len(raw_measurement_queue) = RAW_QUEUE_SIZE
    /\ ~measurement_in_progress
    /\ Len(hist) = 0

\* C17: the raw queue never holds more than 2 entries and the processed queue
\* never more than 5.
QueuesWithinCapacity ==
    /\ Len(raw_measurement_queue) <= RAW_QUEUE_SIZE
    /\ Len(processed_measurement_queue) <= PROCESSED_QUEUE_SIZE

\* both queues are full and the task is about to publish a further reading
QueuesFullWitness ==
    /\ Len(raw_measurement_queue) = RAW_QUEUE_SIZE
    /\ Len(processed_measurement_queue) = PROCESSED_QUEUE_SIZE
    /\ task_pc = "send"

(***************************************************************************)
(* LED controller: led_get_all_colors                                      *)
(***************************************************************************)
\* C20: a reader copies min(max_count, led_count) pixels; each pixel copied so
\* far is the snapshot's pixel, the rest of the output is untouched, and the
\* call returns the number of pixels copied.
ReaderCopiesSnapshot ==
    /\ [](\A r \in Readers :
            rd_pc[r] = "copy" =>
                /\ rd_count[r] = Min(Len(rd_out[r]), led_count)
                /\ \A k \in 1..Len(rd_out[r]) :
                      rd_out[r][k] = IF k <= rd_i[r] THEN led_buffer_snapshot[k]
                                     ELSE Untouched)
    /\ [][\A r \in Readers :
            (rd_pc[r] = "copy" /\ rd_pc'[r] = "idle") =>
                (rd_i[r] = rd_count[r] /\ rd_ret'[r] = rd_count[r])]_vars

\* a reader with max_count above led_count has copied every pixel while the
\* working buffer, changed by led_set_pixel, differs from the snapshot
ReaderSnapshotWitness ==
    \E r \in Readers :
        /\ rd_pc[r] = "copy"
        /\ Len(rd_out[r]) = NumLeds + 1
        /\ rd_i[r] = NumLeds
        /\ led_buffer[1] # led_buffer_snapshot[1]

(***************************************************************************)
(* Distance sensor: start and stop                                         *)
(***************************************************************************)
\* C18: distance_sensor_is_running() is true exactly while a measurement task
\* exists, and at most one measurement task exists.
\* Fails under SpecLifecycle: two callers of distance_sensor_start that both
\* test sensor_task_handle before either has created its task create two tasks.
RunningIffOneTask ==
    /\ live_tasks <= 1
    /\ distance_sensor_is_running <=> (live_tasks = 1)

\* C19: after a successful distance_sensor_stop the overflow counter agrees
\* with the readings evicted from the processed queue (no consumer has taken
\* any), wherever in its cycle the task was.
\* Fails under SpecLifecycle: a stop between the dummy xQueueReceive and
\* queue_overflow_counter++ leaves an eviction uncounted.
StopKeepsCounterConsistent ==
    (life_ret = <<"distance_sensor_stop", "ESP_OK">> /\ live_tasks = 0)
        => queue_overflow_counter = n_evicted

(***************************************************************************)
(* LED controller: error handling and the wire                             *)
(***************************************************************************)
\* C21: led_get_all_colors fails closed. A call that returns 0 has written no
\* slot of the output buffer, whether it returned at the argument checks
\* (controller uninitialized, output buffer NULL, max_count 0) or after the
\* 100 ms wait for snapshot_mutex; a call that could not get the mutex returns
\* 0; and a call waiting for the mutex always leaves the wait.
GetAllColorsFailsClosed ==
    /\ [][\A r \in Readers :
            /\ (rd_ret'[r] = 0 /\ (rd_ret[r] # 0 \/ rd_pc[r] = "take")) =>
                  /\ rd_pc'[r] = "idle"
                  /\ \A k \in DOMAIN rd_out'[r] : rd_out'[r][k] = Untouched
            /\ (rd_pc[r] = "take" /\ rd_pc'[r] = "idle") => rd_ret'[r] = 0
            /\ \A has_output \in BOOLEAN, max_count \in ReaderCounts :
                 (/\ led_get_all_colors_call(r, has_output, max_count)
                  /\ (~is_initialized \/ ~has_output \/ max_count = 0)) =>
                     /\ rd_ret'[r] = 0
                     /\ rd_pc'[r] = "idle"
                     /\ rd_out'[r] = rd_out[r]]_vars
    /\ \A r \in Readers : (rd_pc[r] = "take") ~> (rd_pc[r] # "take")

\* a reader has come back with 0 and an untouched output buffer of max_count
\* slots while another reader holds snapshot_mutex in its memcpy
GetAllColorsTimeoutWitness ==
    \E r \in Readers, q \in Readers :
        /\ r # q
        /\ rd_pc[r] = "idle"
        /\ rd_ret[r] = 0
        /\ Len(rd_out[r]) > 0
        /\ \A k \in DOMAIN rd_out[r] : rd_out[r][k] = Untouched
        /\ snapshot_mutex = HeldBy(q)

\* C22: on an initialized controller led_set_pixel(index, color) with
\* index >= led_count (index == led_count included) returns
\* ESP_ERR_INVALID_ARG and leaves every pixel of the working buffer as it was;
\* with index < led_count it returns ESP_OK, sets that pixel to color and
\* leaves every other pixel, and the snapshot, as they were.
SetPixelBoundsChecked ==
    [][\A index \in 0..(NumLeds + 1), color \in StripColors :
          (is_initialized /\ led_set_pixel(index, color)) =>
             IF index >= led_count
             THEN /\ last_ret' = <<"led_set_pixel", "ESP_ERR_INVALID_ARG">>
                  /\ led_buffer' = led_buffer
                  /\ led_buffer_snapshot' = led_buffer_snapshot
             ELSE /\ last_ret' = <<"led_set_pixel", "ESP_OK">>
                  /\ Len(led_buffer') = led_count
                  /\ led_buffer'[index + 1] = color
                  /\ \A k \in 1..led_count :
                        k # index + 1 => led_buffer'[k] = led_buffer[k]
                  /\ led_buffer_snapshot' = led_buffer_snapshot]_vars

\* a write past the end was refused while the working buffer held a colour
\* other than off, which is still there
SetPixelRejectedWitness ==
    /\ is_initialized
    /\ last_ret = <<"led_set_pixel", "ESP_ERR_INVALID_ARG">>
    /\ led_buffer[led_count] = led_color_rgb(128, 1, 6)

\* C23: a reset interval lies between the frames of two consecutive led_show
\* calls: when a led_show that directly follows a led_show hands its frame to
\* the RMT channel, the channel has finished the frame before it and the line
\* has been low for at least the reset interval since that frame's last bit.
\* Fails under SpecStrip: the encoder emits no reset code and led_show waits
\* for nothing between two frames, so the second of two consecutive led_show
\* calls starts its frame as soon as it is called; after a
\* rmt_tx_wait_all_done timeout the next frame is queued behind the
\* unfinished one.
ResetBeforeEveryFrame ==
    [][(show_pc = "idle" /\ show_pc' = "wait" /\ last_ret[1] = "led_show") =>
          (~rmt_busy /\ line_low = "reset")]_vars

\* the bit an RMT symbol carries on the WS2812 line: 1 when its high time is
\* the longer part
SymbolBit(symbol) == IF symbol.duration0 > symbol.duration1 THEN 1 ELSE 0

\* the value of byte j (0-based) of a symbol stream read most significant bit
\* first
WireByte(symbols, j) ==
    SymbolBit(symbols[8 * j + 1]) * 128 + SymbolBit(symbols[8 * j + 2]) * 64
    + SymbolBit(symbols[8 * j + 3]) * 32 + SymbolBit(symbols[8 * j + 4]) * 16
    + SymbolBit(symbols[8 * j + 5]) * 8 + SymbolBit(symbols[8 * j + 6]) * 4
    + SymbolBit(symbols[8 * j + 7]) * 2 + SymbolBit(symbols[8 * j + 8])

\* C24: the frame led_show hands to the RMT channel has 3 * led_count bytes,
\* byte 3i the green, 3i+1 the red, 3i+2 the blue channel of pixel i of the
\* working buffer, pixels in index order; on the line each byte goes most
\* significant bit first (24 * led_count symbols that read back, MSB first, as
\* those channel values); and no step of led_show changes the working buffer.
ShowSerializesGrbMsbFirst ==
    /\ [](show_pc = "wait" =>
            LET symbols == rmt_bytes_encoder(data_buffer)
            IN  /\ Len(data_buffer) = 3 * led_count
                /\ Len(symbols) = 24 * led_count
                /\ \A i \in 0..(led_count - 1) :
                      /\ data_buffer[3 * i + 1] = led_buffer[i + 1].green
                      /\ data_buffer[3 * i + 2] = led_buffer[i + 1].red
                      /\ data_buffer[3 * i + 3] = led_buffer[i + 1].blue
                      /\ WireByte(symbols, 3 * i) = led_buffer[i + 1].green
                      /\ WireByte(symbols, 3 * i + 1) = led_buffer[i + 1].red
                      /\ WireByte(symbols, 3 * i + 2) = led_buffer[i + 1].blue)
    /\ [][(\/ show_pc # "idle"
           \/ show_pc' # "idle"
           \/ (last_ret' # last_ret /\ last_ret'[1] = "led_show")) =>
              led_buffer' = led_buffer]_vars

\* a frame is on its way whose first pixel has three different channel bytes,
\* none of them a bit palindrome, and whose second pixel is another colour
GrbFrameWitness ==
    /\ show_pc = "wait"
    /\ led_count = NumLeds
    /\ led_buffer[1] = led_color_rgb(128, 1, 6)
    /\ led_buffer[NumLeds] # led_buffer[1]
    /\ data_buffer[1] = 1
    /\ data_buffer[2] = 128
    /\ data_buffer[3] = 6

\* the controller state a refused call must leave alone: flag, configuration,
\* both buffers, the mutex, the frame buffer and the channel
ControllerUnchanged ==
    UNCHANGED <<is_initialized, led_count, led_buffer, led_buffer_snapshot,
                snapshot_mutex, show_pc, data_buffer, wireVars>>

\* C25: lifecycle errors of the LED controller. While the controller is not
\* initialized (before a successful init, or after deinit) led_set_pixel,
\* led_clear_all, led_show and led_controller_deinit return
\* ESP_ERR_INVALID_STATE and change nothing; led_controller_init on an
\* initialized controller returns ESP_ERR_INVALID_STATE and leaves the
\* buffers, the snapshot and the configuration as they were.
LifecycleErrorsRefused ==
    [][/\ \A index \in 0..(NumLeds + 1), color \in StripColors :
            (~is_initialized /\ led_set_pixel(index, color)) =>
               /\ last_ret' = <<"led_set_pixel", "ESP_ERR_INVALID_STATE">>
               /\ ControllerUnchanged
       /\ (~is_initialized /\ led_clear_all) =>
               /\ last_ret' = <<"led_clear_all", "ESP_ERR_INVALID_STATE">>
               /\ ControllerUnchanged
       /\ (~is_initialized /\ led_show_transmit) =>
               /\ last_ret' = <<"led_show", "ESP_ERR_INVALID_STATE">>
               /\ ControllerUnchanged
       /\ (~is_initialized /\ led_controller_deinit) =>
               /\ last_ret' = <<"led_controller_deinit", "ESP_ERR_INVALID_STATE">>
               /\ ControllerUnchanged
       /\ (is_initialized /\ led_controller_init) =>
               /\ last_ret' = <<"led_controller_init", "ESP_ERR_INVALID_STATE">>
               /\ ControllerUnchanged]_vars

\* the controller was initialized, showed a frame and was deinitialized, and a
\* led_show after that was refused
RefusedAfterDeinitWitness ==
    /\ ~is_initialized
    /\ last_ok_frame # <<>>
    /\ last_ret = <<"led_show", "ESP_ERR_INVALID_STATE">>

\* C29: led_controller_init accepts a "led_count" only in (0, 1000] and a
\* "led_bright" only in [0, 255]. With any other value, or when one of the two
\* cannot be read from the configuration store, it returns an error
\* (ESP_ERR_INVALID_ARG for a value out of range, the error of the read
\* otherwise), allocates nothing and leaves the controller uninitialized:
\* both buffers and the mutex stay NULL and led_get_count() is 0. With both
\* values in range and all allocations made it initializes led_count LEDs.
InitValidatesConfiguration ==
    /\ [](/\ \A n \in -1..1001 : LedCountValid(n) <=> (0 < n /\ n <= 1000)
          /\ \A b \in -1..256 : BrightnessValid(b) <=> (0 <= b /\ b <= 255))
    /\ [][\A read_count \in ConfigReadResults, n \in CfgLedCounts,
             read_bright \in ConfigReadResults, b \in CfgBrightness,
             resources \in InitResourceResults :
            (/\ ~is_initialized
             /\ led_controller_init_with(read_count, n, read_bright, b, resources)) =>
               IF /\ read_count = "ESP_OK" /\ 0 < n /\ n <= 1000
                  /\ read_bright = "ESP_OK" /\ 0 <= b /\ b <= 255
               THEN resources = "ESP_OK" =>
                       /\ last_ret' = <<"led_controller_init", "ESP_OK">>
                       /\ is_initialized'
                       /\ led_get_count' = n
               ELSE /\ last_ret'[1] = "led_controller_init"
                    /\ last_ret'[2] =
                          (IF read_count # "ESP_OK" THEN read_count
                           ELSE IF ~(0 < n /\ n <= 1000) THEN "ESP_ERR_INVALID_ARG"
                           ELSE IF read_bright # "ESP_OK" THEN read_bright
                           ELSE "ESP_ERR_INVALID_ARG")
                    /\ ~is_initialized'
                    /\ led_buffer' = <<>>
                    /\ led_buffer_snapshot' = <<>>
                    /\ snapshot_mutex' = MutexNull
                    /\ led_get_count' = 0]_vars

\* led_controller_init has refused a configuration after it had stored a valid
\* led_count: the brightness was out of range; nothing is allocated and
\* led_get_count() is 0
InitRefusedWitness ==
    /\ last_ret = <<"led_controller_init", "ESP_ERR_INVALID_ARG">>
    /\ ~is_initialized
    /\ led_count = NumLeds
    /\ led_get_count = 0
    /\ led_buffer = <<>>
    /\ snapshot_mutex = MutexNull
    /\ last_ok_frame = <<>>

\* C30: from the return of a successful led_controller_init until the render
\* task's next call, every pixel of the working buffer and of the snapshot is
\* off, and led_get_pixel reports off for every index.
\* Fails under SpecStrip: the led_clear_all call inside led_controller_init runs
\* while is_initialized is still false and returns ESP_ERR_INVALID_STATE
\* without clearing, so both buffers hold what malloc returned.
AllOffAfterInit ==
    last_ret = <<"led_controller_init", "ESP_OK">> =>
        \A k \in 1..led_count :
            /\ led_buffer[k] = LED_COLOR_OFF
            /\ led_buffer_snapshot[k] = LED_COLOR_OFF
            /\ led_get_pixel(k - 1) = LED_COLOR_OFF

(***************************************************************************)
(* Distance sensor: initialization and the polling API                     *)
(***************************************************************************)
\* C26: before distance_sensor_init has succeeded no measurement task exists
\* and no caller is inside (or has panicked in) a receive on a queue: the
\* distance_sensor_start and distance_sensor_get_latest calls made until then
\* have been refused.
\* Fails under SpecBoot: neither function tests for initialization.
\* distance_sensor_start tests sensor_task_handle only and creates the task,
\* whose first xQueueReceive gets a NULL handle; distance_sensor_get_latest
\* tests its argument only and calls xQueueReceive on the NULL handle itself.
NothingRunsBeforeInit ==
    ~queues_created =>
        /\ sensor_task_handle = "NULL"
        /\ live_tasks = 0
        /\ \A c \in Consumers : cons_pc[c] = "idle"

\* C27: distance_sensor_has_new_measurement returns true exactly when the
\* processed queue holds a reading at the moment of the call; the call returns
\* at once (the caller is not left blocked) and leaves the queue as it was.
HasNewMeasurementIffNonEmpty ==
    [][\A c \in Consumers :
          (has_new_ret'[c] # has_new_ret[c]) =>
             /\ has_new_ret'[c] = (IF Len(processed_measurement_queue) > 0 THEN 1 ELSE 0)
             /\ processed_measurement_queue' = processed_measurement_queue
             /\ cons_pc[c] = "idle"
             /\ cons_pc'[c] = "idle"]_vars

\* the consumer polled an empty processed queue while the raw queue held an
\* echo (answer 0), and the reading published since is in the queue
PolledEmptyWitness ==
    \E c \in Consumers :
        /\ has_new_ret[c] = 0
        /\ cons_pc[c] = "idle"
        /\ Len(processed_measurement_queue) = 1
        /\ processed_measurement_queue[1].status = "DISTANCE_SENSOR_OK"
        /\ last_delivered = NoReading

\* C28: the value distance_sensor_get_queue_overflows returns never goes
\* down: no step of the task (publish, evict, count), of a consumer
\* (get_latest, has_new_measurement), of distance_sensor_stop or of
\* distance_sensor_start decreases or resets queue_overflow_counter.
OverflowCountNeverDecreases ==
    [][queue_overflow_counter' >= queue_overflow_counter]_vars

\* an overflow was counted, the sensor was stopped and started again, and the
\* count is still there
CounterKeptOverRestartWitness ==
    /\ queue_overflow_counter = 1
    /\ n_evicted = 1
    /\ life_ret = <<"distance_sensor_start", "ESP_OK">>
    /\ sensor_task_handle = "task"
    /\ task_pc = "trigger"

(***************************************************************************)
(* LED controller: led_get_pixel and the writers of the snapshot           *)
(***************************************************************************)
\* C31: led_get_pixel(index) is off while the controller is uninitialized or
\* index >= led_count. On an initialized controller a successful
\* led_set_pixel(index, color) makes led_get_pixel(index) equal to color and
\* changes it for no other index, a successful led_clear_all makes it off for
\* every index, and no step of led_show changes what led_get_pixel returns for
\* any index, whatever the snapshot holds.
GetPixelReturnsStoredColour ==
    [][/\ \A index \in 0..(NumLeds + 1) :
             (~is_initialized' \/ index >= led_count') =>
                 led_get_pixel(index)' = LED_COLOR_OFF
       /\ \A index \in 0..(NumLeds + 1), color \in StripColors :
             (led_set_pixel(index, color) /\ last_ret' = <<"led_set_pixel", "ESP_OK">>) =>
                 /\ led_get_pixel(index)' = color
                 /\ \A other \in 0..(NumLeds + 1) :
                       other # index => led_get_pixel(other)' = led_get_pixel(other)
       /\ (led_clear_all /\ last_ret' = <<"led_clear_all", "ESP_OK">>) =>
             \A index \in 0..(NumLeds + 1) : led_get_pixel(index)' = LED_COLOR_OFF
       /\ (led_show_transmit \/ led_show_wait_done \/ led_show_take \/ led_show_copy) =>
             \A index \in 0..(NumLeds + 1) :
                 led_get_pixel(index)' = led_get_pixel(index)]_vars

\* a led_show has completed after pixel 0 was stored, and led_get_pixel(0) is
\* the stored colour while the snapshot and the transmitted frame hold another
GetPixelWitness ==
    /\ is_initialized
    /\ last_ret = <<"led_set_pixel", "ESP_OK">>
    /\ last_ok_frame # <<>>
    /\ led_get_pixel(0) = led_color_rgb(128, 1, 6)
    /\ led_buffer_snapshot[1] = LED_COLOR_OFF
    /\ last_ok_frame[1] = LED_COLOR_OFF

\* C32: on an initialized controller every step that changes the snapshot is
\* the memcpy of a led_show whose transmission was confirmed, made while
\* led_show holds the snapshot mutex; it is no step of led_set_pixel,
\* led_clear_pixel, led_clear_all or led_get_all_colors (led_get_pixel changes
\* nothing at all).
SnapshotSingleWriter ==
    [][(is_initialized /\ led_buffer_snapshot' # led_buffer_snapshot) =>
          /\ led_show_copy
          /\ tx_status = "ESP_OK"
          /\ snapshot_mutex = HeldByRender
          /\ ~ \E index \in 0..NumLeds, color \in Colors : led_set_pixel(index, color)
          /\ ~ \E index \in 0..NumLeds : led_clear_pixel(index)
          /\ ~ led_clear_all
          /\ ~ \E r \in Readers, max_count \in MaxCounts :
                  led_get_all_colors_call(r, TRUE, max_count)
          /\ ~ \E r \in Readers : led_get_all_colors_take(r)
          /\ ~ \E r \in Readers : led_get_all_colors_timeout(r)
          /\ ~ \E r \in Readers : led_get_all_colors_copy(r)]_vars

\* led_show is inside its memcpy and has overwritten pixel 0 of the snapshot,
\* while a reader waits for the mutex
SnapshotWrittenWitness ==
    /\ show_pc = "copy"
    /\ show_i = 1
    /\ tx_status = "ESP_OK"
    /\ led_buffer_snapshot[1] # snap_at_call[1]
    /\ \E r \in Readers : rd_pc[r] = "take"

(***************************************************************************)
(* Distance sensor: the echo interrupt during initialization, the trigger  *)
(* line, stale samples                                                     *)
(***************************************************************************)
\* C34: whenever echo_isr_handler is registered, raw_measurement_queue is a
\* queue, and no xQueueSendFromISR of the handler has been made on a handle
\* that is NULL or that of a deleted queue.
\* Fails under SpecBoot: distance_sensor_init registers the handler before it
\* creates the raw queue, and when the processed queue cannot be created it
\* deletes the raw queue and returns with the handler still registered and
\* the handle still pointing at the deleted queue.
IsrQueueExists ==
    /\ isr_handler_added => raw_queue_handle = "valid"
    /\ isr_fault = "none"

\* C33: a raw sample the measurement task dequeues in a cycle was enqueued
\* after that cycle's trigger pulse: whenever the task holds a reading computed
\* from a dequeued sample, the raw queue was empty when the cycle's trigger
\* pulse was sent.
\* Fails under SpecSensor: the task never empties the raw queue before a
\* trigger, so a sample the ISR enqueues after the xQueueReceive of one cycle
\* has timed out waits in the queue and is what the xQueueReceive of the next
\* cycle returns.
DequeuedSampleIsOfThisCycle ==
    (task_pc = "send" /\ processed.status # "DISTANCE_SENSOR_TIMEOUT") =>
        raw_at_trigger = 0

\* C35: the trigger line is high only between the two gpio_set_level calls of
\* a running cycle's trigger pulse, and it is low whenever no measurement task
\* exists (before distance_sensor_start and after distance_sensor_stop has
\* returned).
\* Fails under SpecPulse: distance_sensor_stop deletes the task wherever it
\* is and never writes the trigger pin, so a vTaskDelete that falls into the
\* 10 us busy-wait of the pulse leaves the line high until the next start.
TriggerLowUnlessPulsing ==
    /\ trigger_level = 1 => (sensor_task_handle = "task" /\ task_pc = "pulse")
    /\ sensor_task_handle = "NULL" => trigger_level = 0

\* C36: the timeout step of a cycle leaves previous_smoothed_value_mm and
\* smoothing_initialized as they were, and a valid reading is blended with the
\* smoothed value the last valid reading before it left, however many Timeout
\* cycles lie between the two.
TimeoutKeepsFilterState ==
    /\ [][task_receive_timeout =>
             /\ previous_smoothed_value_mm' = previous_smoothed_value_mm
             /\ smoothing_initialized' = smoothing_initialized]_vars
    /\ [](LET k == Len(hist)
          IN  (/\ task_pc = "send"
               /\ processed.status = "DISTANCE_SENSOR_OK"
               /\ k >= 2
               /\ hist[k - 1].initialized) =>
                  /\ processed.distance_mm =
                        EmaBlend(sensor_config.smoothing_factor,
                                 hist[k].raw_mm, hist[k - 1].previous)
                  /\ previous_smoothed_value_mm = processed.distance_mm
                  /\ smoothing_initialized)

\* 500 mm in cycle 1, no echo in cycles 2 and 3, 520 mm in cycle 4: the fourth
\* reading is 506 mm = 0.3 * 520 + 0.7 * 500
TimeoutsBetweenReadingsWitness ==
    /\ task_pc = "send"
    /\ cycles = 4
    /\ Len(processed_measurement_queue) = 3
    /\ processed_measurement_queue[1].status = "DISTANCE_SENSOR_OK"
    /\ processed_measurement_queue[1].distance_mm = 500
    /\ processed_measurement_queue[2].status = "DISTANCE_SENSOR_TIMEOUT"
    /\ processed_measurement_queue[3].status = "DISTANCE_SENSOR_TIMEOUT"
    /\ processed.status = "DISTANCE_SENSOR_OK"
    /\ Len(hist) = 2
    /\ hist[2].raw_mm = 520
    /\ processed.distance_mm = 506

(***************************************************************************)
(* LED controller: the snapshot mutex                                      *)
(***************************************************************************)
\* C37: the render task holds snapshot_mutex exactly while it is in the memcpy
\* of led_show and a reader exactly while it is in the memcpy of
\* led_get_all_colors, so at most one task is in a memcpy on the snapshot at
\* any time and no task holds the mutex after its call has returned; and every
\* led_show that has started returns, whatever the readers do.
MutexHeldOnlyInCopy ==
    /\ [](/\ (snapshot_mutex = HeldByRender) <=> (show_pc = "copy")
          /\ \A r \in Readers : (snapshot_mutex = HeldBy(r)) <=> (rd_pc[r] = "copy")
          /\ Cardinality({r \in Readers : rd_pc[r] = "copy"})
                + (IF show_pc = "copy" THEN 1 ELSE 0) <= 1)
    /\ (show_pc # "idle") ~> (show_pc = "idle")

\* led_show waits for the mutex with a confirmed frame while one reader is
\* inside its memcpy and the other waits for the mutex as well
MutexContendedWitness ==
    \E r \in Readers, q \in Readers :
        /\ r # q
        /\ show_pc = "take"
        /\ rd_pc[r] = "copy"
        /\ snapshot_mutex = HeldBy(r)
        /\ rd_pc[q] = "take"

\* C38: no task inside led_get_all_colors or led_show touches the working
\* buffer, the snapshot or the snapshot mutex after led_controller_deinit has
\* freed or deleted them.
\* Fails under SpecDeinit: led_controller_deinit takes no lock and waits for
\* nobody, so a reader that has passed the is_initialized test goes on to take
\* the deleted mutex or to copy from the freed snapshot.
NoUseAfterDeinit ==
    \A r \in Readers : rd_pc[r] # "panic" /\ rd_pc[r] # "freed_memory_read"

(***************************************************************************)
(* Ideal zone                                                              *)
(***************************************************************************)
\* every LED count the range check of led_controller_init accepts
ZoneLedCounts == {n \in 0..1001 : LedCountValid(n)}

\* both components initialized, the strip of any accepted length
ZoneInit ==
    /\ \E n \in ZoneLedCounts : LedReadyCount(n)
    /\ SensorInit({DefaultTemperature}, {DefaultSmoothingFactor})

\* the display task created and run up to its loop
ZoneNext ==
    \/ display_logic_start
    \/ display_logic_task_entry

SpecZone == ZoneInit /\ [][ZoneNext]_vars

IdealZoneInsideStrip ==
    display_pc = "poll" =>
        LET size == IF led_count \div 10 > 4 THEN led_count \div 10 ELSE 4
        IN  /\ 0 <= ideal_zone_start
            /\ ideal_zone_start <= ideal_zone_end
            /\ ideal_zone_end <= led_count - 1
            /\ ideal_zone_end - ideal_zone_start + 1 = size
            /\ ideal_zone_start = (led_count \div 4) - (size \div 2)

====
